---- MODULE Spec2Model ----
(***************************************************************************)
(* SwipeHire: the persisted application queue (lib/applicationQueue), the  *)
(* queue-draining loop of the SwipeDeck component (processQueue and the    *)
(* effects and timers that call it), the dashboard's retry / remove        *)
(* handlers, and the page's switch between the two views, which unmounts   *)
(* one component and mounts a new instance of the other.                   *)
(*                                                                         *)
(* A record of the queue is modelled by its jobId, its status and the      *)
(* presence of its optional fields `error` and `appliedAt` (TRUE: the key  *)
(* holds a value; FALSE: the key is absent or undefined, which             *)
(* JSON.stringify drops on save).                                          *)
(***************************************************************************)
EXTENDS Integers, Sequences, FiniteSets, Bags, TLC

\* ----------------------------------------------------------------- bounds
NumJobs == 2
MaxTimers == 1
MaxDecks == 2
MaxEmpty == 2

Jobs == 1..NumJobs

\* The jobs on the deck's cards.  Every company of ATS_COMPANIES is on Ashby,
\* so the jobs loadJobs fetches are Ashby jobs (Jobs); OtherJobs is a job of
\* another provider, which the Job type allows and a feed with a Greenhouse or
\* Lever company would bring.
OtherJobs == {NumJobs + 1}
Cards == Jobs \cup OtherJobs
atsProvider(j) == IF j \in Jobs THEN "ashby" ELSE "greenhouse"

\* The SwipeDeck instances the page has mounted and that still have a callback
\* or a request pending; the id of one that has none is used again.
Decks == 1..MaxDecks

VARIABLES
    queue,          \* localStorage[QUEUE_KEY]: the persisted ApplicationRecord[]
    autoSubmit,     \* state autoSubmit of the mounted view (mirrored to AUTO_SUBMIT_KEY)
    mounted,        \* the SwipeDeck instance on screen; 0 while the dashboard is shown
    processingRef,  \* processingRef.current of each SwipeDeck instance
    inflight,       \* processQueue invocations suspended at `await submitApplicationRecord`
    timers,         \* pending setTimeout callbacks that call processQueue
    dashRecords,    \* JobDashboard state `records`, as far as its buttons read it
    swipes,         \* localStorage[SWIPE_STORAGE_KEY]: the persisted JobSwipeData[]
    hist,           \* which history a run records: "none", "ops" or "order"
    eligOrder,      \* history "order": eligible jobIds, oldest entry into queued/failed first
    lastOp,         \* history "ops": what the last handler did
    apiIn,          \* history "ops": the argument of the last queue API call
    apiOut,         \* what the last queue API call returned
    run,            \* the applyAshby invocation of the apply engine (server side)
    form,           \* the application form an applyAshby invocation works on
    attempt         \* one processQueue call followed through submitApplicationRecord

vars == <<queue, autoSubmit, mounted, processingRef, inflight, timers, dashRecords,
          swipes, hist, eligOrder, lastOp, apiIn, apiOut, run, form, attempt>>

\* --------------------------------------------------------------- records
ApplicationStatus == {"queued", "applying", "applied", "failed"}

ApplicationRecord ==
    [jobId : Jobs, status : ApplicationStatus, error : BOOLEAN, appliedAt : BOOLEAN]

\* What `find` / a missing return value yields.
Undefined == [jobId |-> 0, status |-> "undefined", error |-> FALSE, appliedAt |-> FALSE]

\* The record enqueueJobForApplication builds for a swiped job.
NewRecord(j) == [jobId |-> j, status |-> "queued", error |-> FALSE, appliedAt |-> FALSE]

\* queue.findIndex(item => item.jobId === jobId); 0 stands for -1.
FindIndex(q, j) ==
    LET hits == {i \in 1..Len(q) : q[i].jobId = j}
    IN  IF hits = {} THEN 0 ELSE CHOOSE i \in hits : \A k \in hits : i <= k

RecordOf(q, j) == IF FindIndex(q, j) = 0 THEN Undefined ELSE q[FindIndex(q, j)]

StatusOf(q, j) == RecordOf(q, j).status

\* `updates.profile ?? {}`
NoKeys == [k \in {} |-> ""]
ProfileOf(updates) == IF "profile" \in DOMAIN updates THEN updates.profile ELSE NoKeys

\* A mutant that takes `profile` like any other key: { ...old, ...updates }.
MutShallowMerge(old, updates) ==
    [f \in DOMAIN old |-> IF f \in DOMAIN updates THEN updates[f] ELSE old[f]]

\* { ...old, ...updates, profile: { ...old.profile, ...(updates.profile ?? {}) } }:
\* a key of `updates` wins, also when its value is undefined; the keys of the
\* nested profile are merged one by one.  (The records of the draining model
\* are written without their profile, which no handler of the deck or the
\* dashboard names in a partial.)
MergeRecord(old, updates) ==
    [f \in DOMAIN old |->
        IF f = "profile"
        THEN [k \in DOMAIN old.profile |->
                 IF k \in DOMAIN ProfileOf(updates) THEN ProfileOf(updates)[k]
                 ELSE old.profile[k]]
        ELSE IF f \in DOMAIN updates THEN updates[f] ELSE old[f]]

\* ------------------------------------------------------------- queue API
MutEnqueueAppends(q, record) == Append(q, record)

MutEnqueueKeepsOld(q, record) ==
    IF FindIndex(q, record.jobId) # 0 THEN q ELSE Append(q, record)

enqueueApplication(q, record) ==
    LET withoutDuplicate == SelectSeq(q, LAMBDA item : item.jobId # record.jobId)
    IN  Append(withoutDuplicate, record)

MutUpdateMovesToEnd(q, jobId, updates) ==
    LET idx == FindIndex(q, jobId)
    IN  IF idx = 0 THEN q
        ELSE Append(SelectSeq(q, LAMBDA item : item.jobId # jobId),
                    MergeRecord(q[idx], updates))

updateApplicationRecord(q, jobId, updates) ==
    LET idx == FindIndex(q, jobId)
    IN  IF idx = 0 THEN q
        ELSE [q EXCEPT ![idx] = MergeRecord(q[idx], updates)]

\* What updateApplicationRecord returns: the stored record, or undefined.
UpdateReturn(q, jobId, updates) ==
    RecordOf(updateApplicationRecord(q, jobId, updates), jobId)

removeApplication(q, jobId) == SelectSeq(q, LAMBDA item : item.jobId # jobId)

\* localStorage.removeItem(QUEUE_KEY): the next read finds no queue.
clearQueue(q) == <<>>

IsEligible(item) == item.status = "queued" \/ item.status = "failed"

MutNextPrefersQueued(q) ==
    LET fresh == {i \in 1..Len(q) : q[i].status = "queued"}
        hits == IF fresh # {} THEN fresh ELSE {i \in 1..Len(q) : q[i].status = "failed"}
    IN  IF hits = {} THEN Undefined
        ELSE q[CHOOSE i \in hits : \A k \in hits : i <= k]

MutNextTakesLast(q) ==
    LET hits == {i \in 1..Len(q) : IsEligible(q[i])}
    IN  IF hits = {} THEN Undefined
        ELSE q[CHOOSE i \in hits : \A k \in hits : i >= k]

getNextQueuedApplication(q) ==
    LET hits == {i \in 1..Len(q) : IsEligible(q[i])}
    IN  IF hits = {} THEN Undefined
        ELSE q[CHOOSE i \in hits : \A k \in hits : i <= k]

\* The partial records the callers pass to updateApplicationRecord.
StartUpdate == [status |-> "applying", error |-> FALSE]
SuccessUpdate == [status |-> "applied", appliedAt |-> TRUE, error |-> FALSE]
FailureUpdate == [status |-> "failed", error |-> TRUE]
RetryUpdate == [status |-> "queued", error |-> FALSE]

\* ------------------------------------------------------------ swipe store
\* saveJobSwipe: drop any entry of the jobId, then append the new one.
MutSaveSwipeAppends(sw, jobId, action) ==
    Append(sw, [jobId |-> jobId, action |-> action])

saveJobSwipe(sw, jobId, action) ==
    LET filteredSwipes == SelectSeq(sw, LAMBDA swipe : swipe.jobId # jobId)
    IN  Append(filteredSwipes, [jobId |-> jobId, action |-> action])

\* ------------------------------------------------------------ histories
\* What the dashboard's buttons read of a loaded queue: per jobId, whether the
\* record's status is failed (Retry and Remove shown), applied (Remove shown)
\* or anything else, a missing record included (no button).
DashView(q) ==
    [j \in Jobs |-> IF StatusOf(q, j) \in {"failed", "applied"}
                    THEN StatusOf(q, j) ELSE "other"]

\* lastOp, apiIn and eligOrder are written only in the runs that record them;
\* a run that records the order also records the starts.
Note(op) ==
    lastOp' = IF hist = "ops" THEN op
              ELSE IF hist = "order" THEN (IF op \in {"start", "restart"} THEN op ELSE "other")
              ELSE lastOp

NoteIn(record) == apiIn' = IF hist = "ops" THEN record ELSE apiIn

\* eligOrder after the queue went from q to q2: a jobId whose record entered
\* queued or failed (or was written anew by enqueue) goes to the end; one that
\* is no longer eligible is dropped.
Entered(q, q2, j, fresh) ==
    /\ IsEligible(RecordOf(q2, j))
    /\ \/ j \in fresh
       \/ StatusOf(q, j) # StatusOf(q2, j)

RECURSIVE SeqOfSet(_)
SeqOfSet(S) ==
    IF S = {} THEN <<>>
    ELSE LET x == CHOOSE y \in S : \A z \in S : y <= z
         IN  <<x>> \o SeqOfSet(S \ {x})

NextEligOrder(old, q, q2, fresh) ==
    LET kept == SelectSeq(old, LAMBDA j : IsEligible(RecordOf(q2, j))
                                          /\ ~Entered(q, q2, j, fresh))
        added == {j \in Jobs : Entered(q, q2, j, fresh)}
    IN  kept \o SeqOfSet(added)

NewEligOrder(old, q, q2, fresh) ==
    IF hist = "order" THEN NextEligOrder(old, q, q2, fresh) ELSE old

\* ----------------------------------------------------------------- timers
\* A timer holds processQueue of the instance `deck`, from the render whose
\* autoSubmit was `auto`, and the argument `force` it will pass.
AutoTimer(d) == [auto |-> TRUE, force |-> FALSE, deck |-> d]
TimerKinds ==
    {[auto |-> TRUE, force |-> FALSE, deck |-> d] : d \in Decks}
    \cup {[auto |-> FALSE, force |-> TRUE, deck |-> d] : d \in Decks}
AddTimer(b, t) == b (+) SetToBag({t})
DropTimer(b, t) == b (-) SetToBag({t})

\* ------------------------------------------------------------ apply engine
\* The state of one applyAshby(payload) call: where it stands, what it holds
\* and what it has done to the form so far.
IdentityFields == {"First name", "Last name", "Email", "Phone", "Location"}

\* The error message of a result that is not the validation failure's.
NoMessage == [retries |-> 0, suggestions |-> {}, text |-> ""]

NoRun ==
    [pc |-> "idle", resumeExists |-> TRUE, mode |-> "auto",
     browser |-> "none", context |-> "none", page |-> FALSE,
     written |-> {}, uploadTried |-> FALSE,
     oracle |-> "none", answer |-> "none", unfilled |-> FALSE,
     clicks |-> 0, retryCount |-> 0, fixAttempt |-> 0, loopEntered |-> FALSE,
     validationError |-> FALSE,
     emptyRequired |-> 0, text |-> "", message |-> NoMessage,
     error |-> "none", pending |-> "none", shot |-> FALSE, outcome |-> "none"]

\* ----------------------------------------------------- application form
\* The controls of a form, each named after what it asks for.  A value is ""
\* (empty) or names where the text came from: "profile" (the payload's
\* profile), "resume" (the form's own autofill from the uploaded resume),
\* "canned" (a literal of draftAnswer), "ai" (the oracle's text), "default"
\* (a literal of retryMissingFields) or "smart" (the option smartSelectOption
\* picks).  The work authorization control is a select, which has an option
\* with the profile's text or has none (hasOption), or a text input.  The form
\* can hold one radio group: form.radio.options are the labels of its radio
\* inputs in document order (none: no group), form.radio.selected the position
\* of the checked one (0: none).
FillTargets == {"firstName", "phone", "linkedin"}
CountTargets == {"workAuth", "cover"}
TextFields == FillTargets \cup CountTargets \cup {"salary"}
Boxes == {"terms", "newsletter"}
RadioOptions == {<<>>, <<"Yes", "No">>, <<"No", "Yes">>, <<"I am", "I am not">>}

\* The label text on the page for each control of the form.
Label(f) ==
    CASE f = "firstName"  -> "First name"
      [] f = "phone"      -> "Phone"
      [] f = "linkedin"   -> "LinkedIn Profile"
      [] f = "workAuth"   -> "Work Authorization"
      [] f = "cover"      -> "Cover letter"
      [] f = "salary"     -> "Expected salary range"
      [] f = "terms"      -> "I agree to the Terms of Service"
      [] f = "newsletter" -> "Subscribe to Master's program newsletter"

\* The resume upload of a form: what the page holds (a file input and whether
\* setInputFiles works on it, what each label of the call resolves to, an
\* upload button and what clicking it does) and what the upload has done so
\* far.
UploadLabels == <<"Resume", "Resume (accented)", "CV">>

NoUpload ==
    [pc |-> "idle",
     directCount |-> 0, directSet |-> "ok",
     labeled |-> [i \in 1..Len(UploadLabels) |-> "none"],
     buttonCount |-> 0, chooser |-> "opens", chooserSet |-> "ok",
     secondClick |-> "ok", lateChooser |-> "none",
     label |-> 1, tried |-> <<>>, sets |-> 0, triggers |-> 0]

\* The policy questions of a form, in the order of the tasks of
\* ensureRequiredPolicyAnswers: two radio groups and one checkbox.  A radio
\* group holds 0 (nothing selected) or the position of the selected option;
\* of its two options the affirmative one comes first.
PolicyTasks == <<"authorized", "office", "relocate">>
RadioTasks == {"authorized", "relocate"}

WorkAuthAnswers ==
    {"Yes, I am authorized to work in the United States",
     "No, I am not authorized to work in the United States",
     "No, I will need a visa"}

NoPolicy ==
    [pc |-> "idle", task |-> 1,
     workAuth |-> "Yes, I am authorized to work in the United States",
     understandsAnchorDays |-> TRUE, willingToRelocate |-> TRUE,
     wrapped |-> FALSE, boxesFirst |-> FALSE, order |-> <<>>,
     options |-> <<"Yes", "No">>,
     selected |-> [q \in RadioTasks |-> 0], officeChecked |-> FALSE,
     handled |-> {}]

NoForm ==
    [pc |-> "idle", mode |-> "auto", upload |-> NoUpload, policy |-> NoPolicy,
     res |-> [t \in FillTargets |-> "none"],
     count |-> [t \in CountTargets |-> 0],
     control |-> "select", hasOption |-> TRUE,
     val |-> [f \in TextFields |-> ""],
     checked |-> [b \in Boxes |-> FALSE],
     radio |-> [options |-> <<>>, selected |-> 0],
     writes |-> [f \in TextFields |-> 0],
     guessed |-> {}, oracleCalls |-> 0,
     clicks |-> 0, retryCount |-> 0, fixAttempt |-> 0,
     validationError |-> FALSE, error |-> "none", outcome |-> "none"]

\* ------------------------------------------------- one submission attempt
\* What a record's job says about its application form, and the exchange with
\* /api/apply-ashby as fetch sees it: the request may fail to be delivered;
\* a response has a status and a body, which holds JSON or does not.
Providers == {"ashby", "greenhouse"}

HttpStatus == {200, 500, 502}

NoExchange == [delivered |-> FALSE, status |-> 0, json |-> FALSE, ok |-> FALSE, error |-> ""]

NoAttempt ==
    [pc |-> "idle", jobId |-> 0, provider |-> "ashby", atsUrl |-> TRUE,
     exchange |-> NoExchange, requests |-> 0, thrown |-> "none", message |-> ""]

\* ------------------------------------------------------------------ Init
Boot ==
    /\ queue = <<>>
    /\ autoSubmit = TRUE
    /\ mounted = 1
    /\ processingRef = [d \in Decks |-> FALSE]
    /\ inflight = <<>>
    /\ timers = EmptyBag
    /\ dashRecords = DashView(<<>>)
    /\ swipes = <<>>
    /\ eligOrder = <<>>
    /\ lastOp = "other"
    /\ apiIn = Undefined
    /\ apiOut = Undefined
    /\ run = NoRun
    /\ form = NoForm
    /\ attempt = NoAttempt

Init == Boot /\ hist = "none"
InitOps == Boot /\ hist = "ops"
InitOrder == Boot /\ hist = "order"

\* ---------------------------------------------------------- processQueue
\* processQueue(force) of instance d, from the render whose autoSubmit was
\* `auto`.  It sets queue, processingRef, inflight, eligOrder and lastOp.

\* The first early return: `(!force && !autoSubmit) || processingRef.current`.
MutRefusesForceBypass(d, auto, force) ==
    (~force /\ ~auto) \/ (processingRef[d] /\ ~force)

Refuses(d, auto, force) == (~force /\ ~auto) \/ processingRef[d]

\* From `processingRef.current = true` to the await of submitApplicationRecord.
Begin(d, next, auto, force) ==
    /\ processingRef' = [processingRef EXCEPT ![d] = TRUE]
    /\ queue' = updateApplicationRecord(queue, next.jobId, StartUpdate)
    /\ inflight' = Append(inflight, [jobId |-> next.jobId, auto |-> auto,
                                     force |-> force, deck |-> d])
    /\ eligOrder' = NewEligOrder(eligOrder, queue, queue', {})
    /\ Note(IF next.status = "failed" THEN "restart" ELSE "start")

ProcessQueue(d, auto, force) ==
    LET next == getNextQueuedApplication(queue)
    IN  IF Refuses(d, auto, force)
        THEN /\ UNCHANGED <<queue, processingRef, inflight, eligOrder>>
             /\ Note(IF ~processingRef[d] THEN "other"
                     ELSE IF force THEN "blockedForced" ELSE "blocked")
        ELSE IF next = Undefined
        THEN /\ UNCHANGED <<queue, processingRef, inflight, eligOrder>>
             /\ Note("other")
        ELSE Begin(d, next, auto, force)

\* A pending setTimeout callback runs: processQueue of the instance and render
\* that set it, whether or not that instance is still mounted.
TimerFire(t) ==
    /\ BagIn(t, timers)
    /\ timers' = DropTimer(timers, t)
    /\ ProcessQueue(t.deck, t.auto, t.force)
    /\ UNCHANGED <<autoSubmit, mounted, dashRecords, apiIn, apiOut, hist, swipes, run, form, attempt>>

\* The effect on [queueRecords, autoSubmit, processQueue]; the 1 s poll of the
\* queue re-runs it.
QueueEffect ==
    /\ mounted # 0
    /\ autoSubmit
    /\ ~processingRef[mounted]
    /\ getNextQueuedApplication(queue) # Undefined
    /\ ProcessQueue(mounted, autoSubmit, FALSE)
    /\ UNCHANGED <<autoSubmit, mounted, timers, dashRecords, apiIn, apiOut, hist, swipes, run, form, attempt>>

\* The "Process Next" button: enabled while nothing is processing and a record
\* is eligible.
ProcessNext ==
    /\ mounted # 0
    /\ ~processingRef[mounted]
    /\ getNextQueuedApplication(queue) # Undefined
    /\ ProcessQueue(mounted, autoSubmit, TRUE)
    /\ UNCHANGED <<autoSubmit, mounted, timers, dashRecords, apiIn, apiOut, hist, swipes, run, form, attempt>>

\* The deck's auto-submit toggle and the effect on [autoSubmit, processQueue].
ToggleAuto ==
    /\ mounted # 0
    /\ autoSubmit' = ~autoSubmit
    /\ IF autoSubmit'
       THEN ProcessQueue(mounted, TRUE, FALSE)
       ELSE /\ UNCHANGED <<queue, processingRef, inflight, eligOrder>>
            /\ Note("other")
    /\ UNCHANGED <<mounted, timers, dashRecords, apiIn, apiOut, hist, swipes, run, form, attempt>>

\* A mutant that clears the flag at the end of the try block only.
MutReleaseOnSuccess(ref, d, ok) == IF ok THEN [ref EXCEPT ![d] = FALSE] ELSE ref

\* `processingRef.current = false` in the finally block: it runs whether the
\* try block came to its end (ok) or the catch block ran.
ReleaseFlag(ref, d, ok) == [ref EXCEPT ![d] = FALSE]

\* The handler that ran last, while the attempt for jobId was in flight,
\* called enqueueApplication or removeApplication for another jobId.
MutatedMeanwhile(jobId) ==
    lastOp \in {"append", "replace", "remove"} /\ apiIn.jobId # jobId

\* A suspended processQueue resumes: submitApplicationRecord resolved (ok) or
\* threw; then the finally block.  Nothing cancels it when its instance is
\* unmounted.  The step is noted as "outcome" when updateApplicationRecord
\* found the record of the attempt and wrote the outcome into it right after
\* a handler that enqueued or removed another jobId.
Complete(i, ok) ==
    /\ i \in 1..Len(inflight)
    /\ LET a == inflight[i]
           q2 == updateApplicationRecord(queue, a.jobId,
                                         IF ok THEN SuccessUpdate ELSE FailureUpdate)
           shouldContinue == getNextQueuedApplication(q2) # Undefined
           again == (a.auto \/ a.force) /\ shouldContinue
       IN  /\ again => BagCardinality(timers) < MaxTimers
           /\ queue' = q2
           /\ inflight' = SubSeq(inflight, 1, i - 1) \o SubSeq(inflight, i + 1, Len(inflight))
           /\ processingRef' = ReleaseFlag(processingRef, a.deck, ok)
           /\ timers' = IF again
                        THEN AddTimer(timers, [auto |-> a.auto, force |-> a.force /\ ~a.auto,
                                               deck |-> a.deck])
                        ELSE timers
           /\ swipes' = IF ok THEN saveJobSwipe(swipes, a.jobId, "applied") ELSE swipes
           /\ eligOrder' = NewEligOrder(eligOrder, queue, q2, {})
           /\ Note(IF FindIndex(queue, a.jobId) # 0 /\ MutatedMeanwhile(a.jobId)
                       THEN "outcome" ELSE "other")
    /\ UNCHANGED <<autoSubmit, mounted, dashRecords, apiIn, apiOut, hist, run, form, attempt>>

\* Swipe right on the card of job j (enqueueJobForApplication): a job that is
\* not on Ashby is marked applied in the swipe store and nothing is queued; a
\* profile without name, email or resume path (complete = FALSE) only shows a
\* message; otherwise the record is enqueued and, with auto-submit on, a timer
\* is set.  The deck shows every fetched job that has no swipe saved when
\* loadJobs starts, so a job whose record is queued, applying or failed comes
\* back with the next load, and one that is applied after the load started is
\* still on it.
Enqueue(j, provider, complete) ==
    /\ mounted # 0
    /\ IF provider # "ashby"
       THEN /\ swipes' = saveJobSwipe(swipes, j, "applied")
            /\ Note("other")
            /\ UNCHANGED <<queue, timers, eligOrder, apiIn>>
       ELSE IF ~complete
       THEN /\ Note("other")
            /\ UNCHANGED <<queue, timers, eligOrder, apiIn, swipes>>
       ELSE /\ autoSubmit => BagCardinality(timers) < MaxTimers
            /\ queue' = enqueueApplication(queue, NewRecord(j))
            /\ timers' = IF autoSubmit THEN AddTimer(timers, AutoTimer(mounted)) ELSE timers
            /\ eligOrder' = NewEligOrder(eligOrder, queue, queue', {j})
            /\ Note(IF FindIndex(queue, j) # 0 THEN "replace" ELSE "append")
            /\ NoteIn(NewRecord(j))
            /\ UNCHANGED swipes
    /\ UNCHANGED <<autoSubmit, mounted, processingRef, inflight, dashRecords, apiOut,
                   hist, run, form, attempt>>

\* Swipe left on the card of job j.
Skip(j) ==
    /\ mounted # 0
    /\ swipes' = saveJobSwipe(swipes, j, "skipped")
    /\ Note("other")
    /\ UNCHANGED <<queue, autoSubmit, mounted, processingRef, inflight, timers,
                   dashRecords, eligOrder, apiIn, apiOut, hist, run, form, attempt>>

\* ------------------------------------------------------------------ page
\* An instance that is off screen and has no request and no timer pending can
\* act no more.
Pending(d) ==
    \/ \E i \in 1..Len(inflight) : inflight[i].deck = d
    \/ \E t \in TimerKinds : t.deck = d /\ BagIn(t, timers)

FreeDecks == {d \in Decks : d # mounted /\ ~Pending(d)}

\* The "Dashboard" tab: the page unmounts SwipeDeck and mounts JobDashboard,
\* whose mount effect loads the queue.
ShowDashboard ==
    /\ mounted # 0
    /\ mounted' = 0
    /\ dashRecords' = DashView(queue)
    /\ Note("other")
    /\ UNCHANGED <<queue, autoSubmit, processingRef, inflight, timers, eligOrder, apiIn, apiOut, hist, swipes, run, form, attempt>>

\* The "Job Swipe" tab: the page unmounts JobDashboard and mounts a new
\* SwipeDeck, with processingRef false and autoSubmit read from the stored
\* preference; its effect on [autoSubmit, processQueue] runs.
ShowSwipe ==
    /\ mounted = 0
    /\ FreeDecks # {}
    /\ LET d == CHOOSE x \in FreeDecks : \A y \in FreeDecks : x <= y
       IN  /\ mounted' = d
           /\ ProcessQueue(d, autoSubmit, FALSE)
    /\ dashRecords' = DashView(<<>>)
    /\ UNCHANGED <<autoSubmit, timers, apiIn, apiOut, hist, swipes, run, form, attempt>>

\* ------------------------------------------------------------- dashboard
\* The dashboard's load (storage event, 1 s poll, Refresh Queue).
DashLoad ==
    /\ mounted = 0
    /\ dashRecords # DashView(queue)
    /\ dashRecords' = DashView(queue)
    /\ Note("other")
    /\ UNCHANGED <<queue, autoSubmit, mounted, processingRef, inflight, timers,
                   eligOrder, apiIn, apiOut, hist, swipes, run, form, attempt>>

\* The dashboard's auto-submit toggle and its effect, which stores the
\* preference.
toggleAutoSubmit ==
    /\ mounted = 0
    /\ autoSubmit' = ~autoSubmit
    /\ Note("other")
    /\ UNCHANGED <<queue, mounted, processingRef, inflight, timers, dashRecords,
                   eligOrder, apiIn, apiOut, hist, swipes, run, form, attempt>>

\* Retry button, shown for a record the dashboard holds as failed.
handleRetry(j) ==
    /\ mounted = 0
    /\ dashRecords[j] = "failed"
    /\ queue' = updateApplicationRecord(queue, j, RetryUpdate)
    /\ dashRecords' = DashView(queue')
    /\ eligOrder' = NewEligOrder(eligOrder, queue, queue', {})
    /\ Note("other")
    /\ UNCHANGED <<autoSubmit, mounted, processingRef, inflight, timers, apiIn, apiOut, hist, swipes, run, form, attempt>>

\* The Remove button is rendered for a record the dashboard holds as applied
\* or failed.
RemoveOffered(j) == dashRecords[j] \in {"applied", "failed"}

handleRemove(j) ==
    /\ mounted = 0
    /\ RemoveOffered(j)
    /\ queue' = removeApplication(queue, j)
    /\ dashRecords' = DashView(queue')
    /\ eligOrder' = NewEligOrder(eligOrder, queue, queue', {})
    /\ Note("remove")
    /\ NoteIn([Undefined EXCEPT !.jobId = j])
    /\ UNCHANGED <<autoSubmit, mounted, processingRef, inflight, timers, apiOut, hist, swipes, run, form, attempt>>

Next ==
    \/ \E j \in Jobs, complete \in BOOLEAN : Enqueue(j, atsProvider(j), complete)
    \/ \E t \in TimerKinds : TimerFire(t)
    \/ QueueEffect
    \/ ProcessNext
    \/ ToggleAuto
    \/ \E i \in 1..MaxDecks, ok \in BOOLEAN : Complete(i, ok)
    \/ ShowDashboard
    \/ ShowSwipe
    \/ DashLoad
    \/ toggleAutoSubmit
    \/ \E j \in Jobs : handleRetry(j)
    \/ \E j \in Jobs : handleRemove(j)

Spec == Init /\ [][Next]_vars

\* The same program, recording what each handler did.
OpsSpec == InitOps /\ [][Next]_vars

\* The same program, recording the order in which records became eligible.
OrderSpec == InitOrder /\ [][Next]_vars

\* The same program with the left swipes, which also write the swipe store.
SwipeNext == Next \/ \E j \in Jobs : Skip(j)

SwipeSpec == Init /\ [][SwipeNext]_vars

\* The deck alone, on a feed that also holds a job of another provider: a
\* right swipe on its card marks it applied in the swipe store and queues
\* nothing.
CardNext ==
    \/ \E j \in Cards, complete \in BOOLEAN : Enqueue(j, atsProvider(j), complete)
    \/ \E j \in Cards : Skip(j)
    \/ \E t \in TimerKinds : TimerFire(t)
    \/ QueueEffect
    \/ ProcessNext
    \/ ToggleAuto
    \/ \E i \in 1..MaxDecks, ok \in BOOLEAN : Complete(i, ok)

CardSpec == Init /\ [][CardNext]_vars

\* --------------------------------------------------------------- restart
\* The page is reloaded (or the browser restarted): every SwipeDeck instance,
\* its processingRef, its timers and its pending request are gone, while
\* localStorage keeps the queue and the preference.  The page mounts a new
\* SwipeDeck, whose effect on [autoSubmit, processQueue] calls processQueue().
Restart ==
    LET next == getNextQueuedApplication(queue)
        starts == autoSubmit /\ next # Undefined
    IN  /\ mounted' = 1
        /\ timers' = EmptyBag
        /\ dashRecords' = DashView(<<>>)
        /\ queue' = IF starts
                    THEN updateApplicationRecord(queue, next.jobId, StartUpdate)
                    ELSE queue
        /\ processingRef' = [d \in Decks |-> starts /\ d = 1]
        /\ inflight' = IF starts
                       THEN <<[jobId |-> next.jobId, auto |-> TRUE,
                               force |-> FALSE, deck |-> 1]>>
                       ELSE <<>>
        /\ eligOrder' = NewEligOrder(eligOrder, queue, queue', {})
        /\ Note(IF ~starts THEN "other"
                ELSE IF next.status = "failed" THEN "restart" ELSE "start")
        /\ UNCHANGED <<autoSubmit, apiIn, apiOut, hist, swipes, run, form, attempt>>

RestartNext == Next \/ Restart

RestartSpec == Init /\ [][RestartNext]_vars

\* ------------------------------------------------- the queue API alone
\* The exported functions of lib/applicationQueue applied to arbitrary
\* arguments, from the empty queue.
UpdateArgs == {StartUpdate, SuccessUpdate, FailureUpdate, RetryUpdate}

ApiEnqueue(record) ==
    /\ queue' = enqueueApplication(queue, record)
    /\ Note(IF FindIndex(queue, record.jobId) # 0 THEN "replace" ELSE "append")
    /\ NoteIn(record)
    /\ apiOut' = Undefined
    /\ UNCHANGED <<autoSubmit, mounted, processingRef, inflight, timers, dashRecords,
                   eligOrder, hist, swipes, run, form, attempt>>

\* A call of updateApplicationRecord; apiOut holds what it returned.
ApiUpdate(jobId, updates) ==
    /\ queue' = updateApplicationRecord(queue, jobId, updates)
    /\ Note("update")
    /\ NoteIn(Undefined)
    /\ apiOut' = UpdateReturn(queue, jobId, updates)
    /\ UNCHANGED <<autoSubmit, mounted, processingRef, inflight, timers, dashRecords,
                   eligOrder, hist, swipes, run, form, attempt>>

ApiRemove(jobId) ==
    /\ queue' = removeApplication(queue, jobId)
    /\ Note("remove")
    /\ NoteIn(Undefined)
    /\ apiOut' = Undefined
    /\ UNCHANGED <<autoSubmit, mounted, processingRef, inflight, timers, dashRecords,
                   eligOrder, hist, swipes, run, form, attempt>>

ApiClear ==
    /\ queue' = clearQueue(queue)
    /\ Note("clear")
    /\ NoteIn(Undefined)
    /\ apiOut' = Undefined
    /\ UNCHANGED <<autoSubmit, mounted, processingRef, inflight, timers, dashRecords,
                   eligOrder, hist, swipes, run, form, attempt>>

\* A call of getNextQueuedApplication; apiOut holds what it returned.
ApiGetNext ==
    /\ apiOut' = getNextQueuedApplication(queue)
    /\ Note("next")
    /\ NoteIn(Undefined)
    /\ UNCHANGED <<queue, autoSubmit, mounted, processingRef, inflight, timers,
                   dashRecords, eligOrder, hist, swipes, run, form, attempt>>

ApiNext ==
    \/ \E record \in ApplicationRecord : ApiEnqueue(record)
    \/ \E jobId \in Jobs, updates \in UpdateArgs : ApiUpdate(jobId, updates)
    \/ \E jobId \in Jobs : ApiRemove(jobId)
    \/ ApiClear
    \/ ApiGetNext

QueueApiSpec == InitOps /\ [][ApiNext]_vars

\* ------------------------------------------- draining with the user away
\* Auto-submit is on, the deck has mounted on a persisted queue, and only the
\* deck's own callbacks run.  A persisted record may be applying (an earlier
\* session ended during its attempt) and may keep the appliedAt of an earlier
\* success (a retry does not clear it).
RestingRecord ==
    {r \in ApplicationRecord :
        /\ r.error <=> (r.status = "failed")
        /\ (r.status = "applied") => r.appliedAt}

RestingQueues ==
    {q \in UNION {[1..n -> RestingRecord] : n \in 0..NumJobs} :
        \A i, k \in 1..Len(q) : i # k => q[i].jobId # q[k].jobId}

DrainInit ==
    /\ queue \in RestingQueues
    /\ autoSubmit = TRUE
    /\ mounted = 1
    /\ processingRef = [d \in Decks |-> FALSE]
    /\ inflight = <<>>
    /\ timers = EmptyBag
    /\ dashRecords = DashView(<<>>)
    /\ swipes = <<>>
    /\ eligOrder = <<>>
    /\ lastOp = "other"
    /\ apiIn = Undefined
    /\ apiOut = Undefined
    /\ run = NoRun
    /\ form = NoForm
    /\ attempt = NoAttempt
    /\ hist = "none"

DrainNext ==
    \/ \E t \in TimerKinds : TimerFire(t)
    \/ QueueEffect
    \/ \E i \in 1..MaxDecks, ok \in BOOLEAN : Complete(i, ok)

\* The event loop runs every due timer and effect, and every request to the
\* apply engine returns.
FairDrainSpec ==
    /\ DrainInit
    /\ [][DrainNext]_vars
    /\ WF_vars(\E t \in TimerKinds : TimerFire(t))
    /\ WF_vars(QueueEffect)
    /\ WF_vars(\E i \in 1..MaxDecks, ok \in BOOLEAN : Complete(i, ok))

\* ------------------------------------- updateApplicationRecord in full
\* updateApplicationRecord applied to records that carry their profile, with
\* partials that name top-level keys, nested keys of the profile, both or
\* nothing.  apiIn holds the arguments of the call and apiOut what it
\* returned.
Phones == {"(646) 555-0199", "(212) 555-0101"}
CoverLetters == {"", "Dear team"}
Profiles == [phone : Phones, coverLetter : CoverLetters]

ProfileRecord ==
    {[jobId |-> r.jobId, status |-> r.status, error |-> r.error,
      appliedAt |-> r.appliedAt, profile |-> p] :
        r \in {x \in RestingRecord : x.appliedAt <=> x.status = "applied"},
        p \in Profiles}

ProfileQueues ==
    {q \in UNION {[1..n -> ProfileRecord] : n \in 0..NumJobs} :
        \A i, k \in 1..Len(q) : i # k => q[i].jobId # q[k].jobId}

ProfilePartials ==
    {NoKeys}
    \cup {[phone |-> v] : v \in Phones}
    \cup {[coverLetter |-> c] : c \in CoverLetters}

ProfileUpdateArgs ==
    {NoKeys, SuccessUpdate, FailureUpdate}
    \cup {[profile |-> pp] : pp \in ProfilePartials}
    \cup {[status |-> "queued", error |-> FALSE, profile |-> pp] : pp \in ProfilePartials}

UpdateCall(jobId, updates) ==
    /\ queue' = updateApplicationRecord(queue, jobId, updates)
    /\ apiOut' = UpdateReturn(queue, jobId, updates)
    /\ apiIn' = [jobId |-> jobId, updates |-> updates]
    /\ lastOp' = "update"
    /\ UNCHANGED <<autoSubmit, mounted, processingRef, inflight, timers, dashRecords,
                   eligOrder, hist, swipes, run, form, attempt>>

UpdateInit ==
    /\ queue \in ProfileQueues
    /\ autoSubmit = TRUE
    /\ mounted = 1
    /\ processingRef = [d \in Decks |-> FALSE]
    /\ inflight = <<>>
    /\ timers = EmptyBag
    /\ dashRecords = DashView(<<>>)
    /\ swipes = <<>>
    /\ hist = "ops"
    /\ eligOrder = <<>>
    /\ lastOp = "other"
    /\ apiIn = Undefined
    /\ apiOut = Undefined
    /\ run = NoRun
    /\ form = NoForm
    /\ attempt = NoAttempt

UpdateNext == \E jobId \in Jobs, updates \in ProfileUpdateArgs : UpdateCall(jobId, updates)

UpdateSpec == UpdateInit /\ [][UpdateNext]_vars

\* ============================================================ applyAshby
\* One call applyAshby(payload) of scripts/applyAshby.ts, one action per
\* awaited step.  The browser, the page under automation, the file system and
\* the answer oracle are the environment: every await the code does not wrap
\* in a try/catch of its own either resolves or rejects.
\*
\* run.pending is what the call is about to hand to its caller while the
\* finally block still runs: "ok" ({ ok: true, ... }), "fail" ({ ok: false,
\* error, ... }) or "escaped" (a rejection no catch converted).  run.outcome
\* is what the caller gets.

clientVars ==
    <<queue, autoSubmit, mounted, processingRef, inflight, timers, dashRecords,
      swipes, hist, eligOrder, lastOp, apiIn, apiOut>>

maxRetries == 5
fixPasses == 3

OracleResults == {"answer", "empty", "malformed", "throws"}

\* `throw` inside the try block: control moves to the catch block.
Throw(r, e) == [r EXCEPT !.pc = "catch", !.error = e]

\* What the canned-answer table gives for a label: a text when one of its
\* patterns matches (canned), '' when none does.
draftAnswer(canned) == IF canned THEN "canned" ELSE ""

\* A mutant of generateAIAnswer that lets the oracle's exception out.
MutAIAnswerRethrows(oracle, canned) ==
    CASE oracle = "answer" -> "ai"
      [] oracle = "throws" -> "THROW"
      [] OTHER -> draftAnswer(canned)

\* generateAIAnswer: the oracle's text when there is one; a missing or empty
\* content is falsy, a response without `choices` and a rejected request both
\* end in the catch block: all three give draftAnswer.
generateAIAnswer(oracle, canned) ==
    IF oracle = "answer" THEN "ai" ELSE draftAnswer(canned)

\* A mutant of the loop condition that allows one more round.
MutLoopOneMore(r) == r.validationError /\ r.retryCount <= maxRetries

\* `while (validationError && retryCount < maxRetries)`
LoopContinues(r) == r.validationError /\ r.retryCount < maxRetries

\* browser = await chromium.launch(...)
launch ==
    /\ run.pc = "launch"
    /\ \/ run' = [run EXCEPT !.pc = "newContext", !.browser = "open"]
       \/ run' = Throw(run, "launch")
    /\ UNCHANGED <<clientVars, form, attempt>>

\* context = await browser.newContext()
newContext ==
    /\ run.pc = "newContext"
    /\ \/ run' = [run EXCEPT !.pc = "newPage", !.context = "open"]
       \/ run' = Throw(run, "context")
    /\ UNCHANGED <<clientVars, form, attempt>>

\* page = await context.newPage()
newPage ==
    /\ run.pc = "newPage"
    /\ \/ run' = [run EXCEPT !.pc = "goto", !.page = TRUE]
       \/ run' = Throw(run, "page")
    /\ UNCHANGED <<clientVars, form, attempt>>

\* page.goto, the click on the apply button or link, and the wait for the form.
goto ==
    /\ run.pc = "goto"
    /\ \/ run' = [run EXCEPT !.pc = "fill"]
       \/ run' = Throw(run, "navigation")
    /\ UNCHANGED <<clientVars, form, attempt>>

\* The five fillIfVisible calls for the identity fields: each writes its field
\* when one of its locators finds exactly one input, and never throws.
fillIfVisible ==
    /\ run.pc = "fill"
    /\ \E found \in SUBSET IdentityFields :
           run' = [run EXCEPT !.pc = "upload", !.written = found]
    /\ UNCHANGED <<clientVars, form, attempt>>

\* uploadByLikelyLabel: the existence check, then the upload strategies.
uploadByLikelyLabel ==
    /\ run.pc = "upload"
    /\ IF ~run.resumeExists
           THEN run' = Throw(run, "resume not found")
           ELSE \/ run' = [run EXCEPT !.pc = "followUps", !.uploadTried = TRUE]
                \/ run' = Throw([run EXCEPT !.uploadTried = TRUE], "upload")
    /\ UNCHANGED <<clientVars, form, attempt>>

\* The remaining profile fields and policy answers, then autoAnswerFollowUps on
\* a page with at most one phone field and at most one empty open-ended text
\* field (field).  The phone field is handled in either mode: it is filled,
\* or added to unfilledFields when the profile has no phone or the fill
\* fails.  In mode 'confirm' no text field is answered.  Otherwise the text
\* field with a long label is answered by generateAIAnswer, one with a short
\* label by draftAnswer; an empty answer, or a fill that fails, only adds the
\* field to unfilledFields.  Any other awaited call may reject, before the
\* loop reaches the text field or after it.
autoAnswerFollowUps ==
    /\ run.pc = "followUps"
    /\ \E phone \in {"none", "filled", "unfilled"}, field \in BOOLEAN,
          long \in BOOLEAN, o \in OracleResults, canned \in BOOLEAN,
          fillFails \in BOOLEAN, rejects \in {"no", "before", "after"} :
         LET answers == field /\ run.mode = "auto"
             answer == IF long THEN generateAIAnswer(o, canned)
                               ELSE draftAnswer(canned)
             after == [run EXCEPT
                          !.oracle = IF answers /\ long THEN o ELSE "none",
                          !.answer = IF answers THEN answer ELSE "none",
                          !.unfilled = \/ phone = "unfilled"
                                       \/ answers /\ (answer = "" \/ fillFails)]
         IN  /\ ~answers => ~long /\ ~canned /\ ~fillFails
             /\ ~long => o = "answer"
             /\ answer = "" => ~fillFails
             /\ rejects = "before" =>
                    phone = "none" /\ ~field /\ ~long /\ ~canned /\ ~fillFails
             /\ run' = CASE rejects = "before" -> Throw(run, "form")
                          [] rejects # "before" /\ answers /\ answer = "THROW" ->
                                 Throw([run EXCEPT !.oracle = o], "oracle")
                          [] rejects = "after" /\ ~(answers /\ answer = "THROW") ->
                                 Throw(after, "form")
                          [] OTHER -> [after EXCEPT !.pc = "submit"]
    /\ UNCHANGED <<clientVars, form, attempt>>

\* A mutant of validateFormCompletion without its try/catch: -1 stands for
\* the exception it lets out.
MutCheckRethrows(empties, examined) ==
    IF examined < empties THEN -1 ELSE empties

\* validateFormCompletion on a form with `empties` empty required text
\* fields, when reading the form fails after `examined` of them have been
\* looked at (never, when examined = empties): the number of labels in the
\* list it returns.  Its catch block logs the failure and returns the list
\* built so far.
validateFormCompletion(empties, examined) ==
    IF examined < empties THEN examined ELSE empties

\* checkIfExists, validateFormCompletion with the log of what it returns, the
\* 2 s wait and the first `await submit.click()`.
submit ==
    /\ run.pc = "submit"
    /\ \/ \E empties \in 0..MaxEmpty, examined \in 0..MaxEmpty :
              LET emptyRequiredFields == validateFormCompletion(empties, examined)
              IN  /\ examined <= empties
                  /\ run' = IF emptyRequiredFields < 0
                                THEN Throw(run, "check")
                                ELSE [run EXCEPT !.pc = "validate", !.clicks = @ + 1,
                                                 !.emptyRequired = emptyRequiredFields]
       \/ run' = Throw(run, "submit")
    /\ UNCHANGED <<clientVars, form, attempt>>

\* The texts findValidationErrors can find on the page, and the keywords of
\* extractMissingFieldSuggestions a text includes (as String.prototype.includes
\* finds them, case and all).
ValidationTexts ==
    {"This field is required",
     "Phone is required. School is required",
     "Graduation Date and Degree Type are missing; are you willing to relocate?",
     "Please confirm you are authorized to work lawfully and open to relocation"}

\* validationError.includes(keyword)
Includes(text, keyword) ==
    \E i \in 0..(Len(text) - Len(keyword)) :
        SubSeq(text, i + 1, i + Len(keyword)) = keyword

\* label.toLowerCase(), which is also what the `i` flag of a pattern amounts
\* to when the pattern is written in lower case.
RECURSIVE toLowerCase(_)
toLowerCase(s) ==
    IF s = "" THEN ""
    ELSE LET upper == "ABCDEFGHIJKLMNOPQRSTUVWXYZ"
             lower == "abcdefghijklmnopqrstuvwxyz"
             c == SubSeq(s, 1, 1)
             k == {i \in 1..Len(upper) : SubSeq(upper, i, i) = c}
         IN  (IF k = {} THEN c
              ELSE LET i == CHOOSE i \in k : TRUE IN SubSeq(lower, i, i))
                 \o toLowerCase(SubSeq(s, 2, Len(s)))

\* One alternative of a pattern, `a.*b.*c` as <<"a", "b", "c">>, found
\* somewhere in a text of one line: the words in this order, each after the end
\* of the one before.
RECURSIVE MatchesWords(_, _)
MatchesWords(text, words) ==
    IF words = <<>> THEN TRUE
    ELSE \E i \in 0..(Len(text) - Len(Head(words))) :
             /\ SubSeq(text, i + 1, i + Len(Head(words))) = Head(words)
             /\ MatchesWords(SubSeq(text, i + Len(Head(words)) + 1, Len(text)),
                             Tail(words))

\* /alt1|alt2|.../i.test(label), the pattern given as the set of its
\* alternatives.
Test(pattern, label) ==
    \E words \in pattern : MatchesWords(toLowerCase(label), words)

Keywords ==
    {"Phone", "School", "Graduation Date", "Degree Type", "work lawfully",
     "authorized to work", "relocate", "relocation"}

KeywordsIn(text) == {k \in Keywords : Includes(text, k)}

\* extractMissingFieldSuggestions: one suggestion per category whose keyword,
\* or one of whose two keywords, the text includes.
extractMissingFieldSuggestions(validationError) ==
    LET kw == KeywordsIn(validationError)
    IN  (IF "Phone" \in kw THEN {"phone number"} ELSE {})
        \cup (IF "School" \in kw THEN {"education (school name)"} ELSE {})
        \cup (IF "Graduation Date" \in kw THEN {"graduation date"} ELSE {})
        \cup (IF "Degree Type" \in kw
                  THEN {"degree type (Bachelor's, Master's, etc.)"} ELSE {})
        \cup (IF "work lawfully" \in kw \/ "authorized to work" \in kw
                  THEN {"work authorization status"} ELSE {})
        \cup (IF "relocate" \in kw \/ "relocation" \in kw
                  THEN {"willingness to relocate"} ELSE {})

\* The message of the Error thrown after the loop: the number of retries, the
\* suggestions when there are any, and the validation text.
ValidationMessage(r) ==
    [retries |-> r.retryCount,
     suggestions |-> extractMissingFieldSuggestions(r.text),
     text |-> r.text]

\* `let validationError = await findValidationErrors(page)` before the loop:
\* a text, or null (here "").  emptyRequiredFields is not read again.
findValidationErrors ==
    /\ run.pc = "validate"
    /\ \/ \E t \in ValidationTexts \cup {""} :
              run' = [run EXCEPT !.pc = "while", !.validationError = (t # ""),
                                 !.text = t, !.emptyRequired = 0]
       \/ run' = Throw([run EXCEPT !.emptyRequired = 0], "validate")
    /\ UNCHANGED <<clientVars, form, attempt>>

\* The test of the while loop, and what follows the loop when it fails: the
\* throw of the validation error, or the way to the success screenshot.
whileTest ==
    /\ run.pc = "while"
    /\ run' = IF LoopContinues(run)
                  THEN [run EXCEPT !.pc = "fix", !.fixAttempt = 1, !.loopEntered = TRUE]
                  ELSE IF run.validationError
                           THEN Throw([run EXCEPT !.message = ValidationMessage(run)],
                                      "validation")
                           ELSE [run EXCEPT !.pc = "success"]
    /\ UNCHANGED <<clientVars, form, attempt>>

\* One pass of `for (fixAttempt = 1; fixAttempt <= 3; fixAttempt++)`.
retryMissingFields ==
    /\ run.pc = "fix"
    /\ \/ run' = IF run.fixAttempt < fixPasses
                     THEN [run EXCEPT !.fixAttempt = @ + 1]
                     ELSE [run EXCEPT !.pc = "resubmit"]
       \/ run' = Throw(run, "fix")
    /\ UNCHANGED <<clientVars, form, attempt>>

\* The click of the loop body, the second findValidationErrors, and either
\* the way out of the loop to the success screenshot or `retryCount++`.
resubmit ==
    /\ run.pc = "resubmit"
    /\ \/ \E newValidationError \in ValidationTexts \cup {""} :
              run' = IF newValidationError # ""
                         THEN [run EXCEPT !.pc = "while", !.clicks = @ + 1,
                                          !.text = newValidationError,
                                          !.retryCount = @ + 1]
                         ELSE [run EXCEPT !.pc = "success", !.clicks = @ + 1]
       \/ run' = Throw(run, "submit")
       \/ run' = Throw([run EXCEPT !.clicks = @ + 1], "validate")
    /\ UNCHANGED <<clientVars, form, attempt>>

\* findSuccessText, captureScreenshot and `return { ok: true, ... }`, all
\* inside the try block.
succeed ==
    /\ run.pc = "success"
    /\ \/ run' = [run EXCEPT !.pc = "closeContext", !.pending = "ok", !.shot = TRUE]
       \/ run' = Throw(run, "screenshot")
    /\ UNCHANGED <<clientVars, form, attempt>>

\* The catch block: `failShot = page ? await captureScreenshot(...) : undefined`
\* and `return { ok: false, error, screenshotPath: failShot }`.  A rejection of
\* captureScreenshot leaves the catch block as an exception.
catchBlock ==
    /\ run.pc = "catch"
    /\ IF run.page
           THEN \/ run' = [run EXCEPT !.pc = "closeContext", !.pending = "fail",
                                      !.shot = TRUE]
                \/ run' = [run EXCEPT !.pc = "closeContext", !.pending = "escaped"]
           ELSE run' = [run EXCEPT !.pc = "closeContext", !.pending = "fail"]
    /\ UNCHANGED <<clientVars, form, attempt>>

\* finally: `await context?.close()`.  When it rejects the finally block ends
\* there, with the rejection in place of the pending result.
contextClose ==
    /\ run.pc = "closeContext"
    /\ IF run.context = "open"
           THEN \/ run' = [run EXCEPT !.pc = "closeBrowser", !.context = "closed"]
                \/ run' = [run EXCEPT !.pc = "done", !.context = "close failed",
                                      !.pending = "escaped", !.outcome = "escaped"]
           ELSE run' = [run EXCEPT !.pc = "closeBrowser"]
    /\ UNCHANGED <<clientVars, form, attempt>>

\* finally: `await browser?.close()`, then the pending result goes to the caller.
browserClose ==
    /\ run.pc = "closeBrowser"
    /\ IF run.browser = "open"
           THEN \/ run' = [run EXCEPT !.pc = "done", !.browser = "closed",
                                      !.outcome = run.pending]
                \/ run' = [run EXCEPT !.pc = "done", !.browser = "close failed",
                                      !.pending = "escaped", !.outcome = "escaped"]
           ELSE run' = [run EXCEPT !.pc = "done", !.outcome = run.pending]
    /\ UNCHANGED <<clientVars, form, attempt>>

\* A call with some payload: the resume file is there or not, mode is 'auto'
\* or 'confirm'.
EngineInit ==
    /\ queue = <<>>
    /\ autoSubmit = TRUE
    /\ mounted = 1
    /\ processingRef = [d \in Decks |-> FALSE]
    /\ inflight = <<>>
    /\ timers = EmptyBag
    /\ dashRecords = DashView(<<>>)
    /\ swipes = <<>>
    /\ hist = "none"
    /\ eligOrder = <<>>
    /\ lastOp = "other"
    /\ apiIn = Undefined
    /\ apiOut = Undefined
    /\ \E exists \in BOOLEAN, m \in {"auto", "confirm"} :
           run = [NoRun EXCEPT !.pc = "launch", !.resumeExists = exists, !.mode = m]
    /\ form = NoForm
    /\ attempt = NoAttempt

EngineNext ==
    \/ launch
    \/ newContext
    \/ newPage
    \/ goto
    \/ fillIfVisible
    \/ uploadByLikelyLabel
    \/ autoAnswerFollowUps
    \/ submit
    \/ findValidationErrors
    \/ whileTest
    \/ retryMissingFields
    \/ resubmit
    \/ succeed
    \/ catchBlock
    \/ contextClose
    \/ browserClose

EngineSpec == EngineInit /\ [][EngineNext]_vars

\* Every awaited step settles: Playwright's calls resolve or time out.
FairEngineSpec == EngineSpec /\ WF_vars(EngineNext)

\* =========================================================== the form pass
\* The same call applyAshby(payload), seen from the form it fills: the value
\* of each control after each pass.  The browser works (launch, navigation and
\* upload succeed) and the profile supplies every value; what varies is the
\* form: which labels resolve to which controls, what the form's autofill
\* writes, what the oracle returns and what the form's validation reports.

\* A control with this name is on the form.
Present(f) ==
    CASE f \in FillTargets  -> form.res[f] # "none"
      [] f \in CountTargets -> form.count[f] > 0
      [] OTHER              -> TRUE

\* What the five locators of fillIfVisible match for a label, by the way the
\* label is attached: "none" (no control), "unique" (one input carries the
\* label), "ambiguous" (two inputs carry it), "group" (the label names a group
\* that holds two text inputs).
Matches(r) ==
    CASE r = "none"      -> <<0, 0, 0, 0, 0>>
      [] r = "unique"    -> <<0, 0, 0, 0, 1>>
      [] r = "ambiguous" -> <<0, 0, 0, 0, 2>>
      [] r = "group"     -> <<0, 0, 0, 2, 0>>

\* `await el.count()` of strategy i: strategy 4 ends in `.first()`.
StrategyCount(r, i) ==
    IF i = 4 /\ Matches(r)[4] > 1 THEN 1 ELSE Matches(r)[i]

\* The strategy whose locator fillIfVisible fills: the first with count 1;
\* 0 when every strategy is passed over.
fillStrategy(r) ==
    IF \E i \in 1..5 : StrategyCount(r, i) = 1
        THEN CHOOSE i \in 1..5 :
                 /\ StrategyCount(r, i) = 1
                 /\ \A k \in 1..(i - 1) : StrategyCount(r, k) # 1
        ELSE 0

\* fillIfVisible(page, label, value) on the form: the fields after the call.
FillField(fm, t, value) ==
    IF fillStrategy(fm.res[t]) = 0
        THEN fm
        ELSE [fm EXCEPT !.val[t] = value, !.writes[t] = @ + 1,
                        !.guessed = IF Matches(fm.res[t])[fillStrategy(fm.res[t])] > 1
                                        THEN @ \cup {t} ELSE @]

\* The two skips of autoAnswerFollowUps on a label: the EEO and demographic
\* fields, and the fields "already handled".
SkipsAsHandled(label) ==
    \/ Test({<<"eeo">>, <<"equal employment opportunity">>, <<"demographic">>,
             <<"veteran">>, <<"disability">>, <<"race">>, <<"ethnicity">>,
             <<"hispanic">>, <<"latino">>, <<"gender">>,
             <<"sexual", "orientation">>}, label)
    \/ Test({<<"first name">>, <<"last name">>, <<"email">>, <<"resume">>,
             <<"cv">>, <<"linkedin">>, <<"github">>, <<"website">>,
             <<"portfolio">>}, label)

\* /phone/i on the label.
IsPhoneLabel(label) == Test({<<"phone">>}, label)

\* draftAnswer returns a text for the label: one of its patterns matches, or
\* the lower-cased label includes one of the three phrases of the fallback.
CannedPattern(label) ==
    \/ Test({<<"cover", "letter">>, <<"why", "join">>, <<"join", "team">>,
             <<"tell us why">>,
             <<"why", "work">>, <<"motivation">>, <<"interest">>,
             <<"why", "company">>, <<"why", "role">>, <<"about you">>,
             <<"what", "work on">>, <<"features", "implement">>,
             <<"first month">>, <<"what", "build">>,
             <<"pm hat">>, <<"product", "problem">>,
             <<"product", "management">>, <<"complex", "product">>,
             <<"extremely", "good">>, <<"what", "teach">>, <<"strengths">>,
             <<"expertise">>, <<"skills", "bring">>,
             <<"salary">>, <<"compensation">>, <<"expected", "pay">>,
             <<"pay", "range">>,
             <<"start", "date">>, <<"availability">>, <<"when", "start">>,
             <<"notice", "period">>, <<"expected", "notice">>,
             <<"location">>, <<"remote">>, <<"where", "located">>,
             <<"timezone">>, <<"region">>,
             <<"age", "18">>, <<"over", "18">>, <<"18", "years">>,
             <<"work", "auth">>, <<"visa">>, <<"sponsor">>, <<"legal", "work">>,
             <<"passport", "country">>, <<"country", "passport">>,
             <<"what", "country">>, <<"country", "based">>,
             <<"country", "residence">>, <<"residence", "country">>,
             <<"based", "country">>,
             <<"hear", "about">>, <<"how", "find">>, <<"source">>,
             <<"experience">>, <<"background">>, <<"skills">>,
             <<"previous", "work">>,
             <<"portfolio">>, <<"projects">>, <<"work", "samples">>,
             <<"additional", "comment">>, <<"anything", "else">>,
             <<"other", "information">>,
             <<"letter", "cover">>}, label)
    \/ \E phrase \in {"type here", "tell us", "describe"} :
           Includes(toLowerCase(label), phrase)

\* handleCheckbox checks the box: one of the patterns before the skip of the
\* higher education levels matches its label, or that skip does not match and
\* the label names a role interest or a professional source.
handleCheckbox(label) ==
    \/ Test({<<"terms">>, <<"privacy">>, <<"agree">>, <<"consent">>,
             <<"acknowledge">>}, label)
    \/ Test({<<"authorized", "work">>, <<"work", "authorized">>,
             <<"lawfully", "work">>, <<"work", "lawfully">>,
             <<"work", "united", "states">>,
             <<"us", "work", "authorization">>}, label)
    \/ Test({<<"office", "requirements">>, <<"in", "person">>,
             <<"anchor", "days">>, <<"understand", "policy">>,
             <<"read", "understand">>, <<"confirm", "read">>,
             <<"office", "policy">>, <<"in", "office">>,
             <<"presence", "office">>}, label)
    \/ Test({<<"willing", "relocate">>, <<"relocate", "willing">>,
             <<"confirm", "relocate">>, <<"relocate", "role">>,
             <<"role", "relocate">>,
             <<"new", "york", "san", "francisco">>}, label)
    \/ Test({<<"undergraduate">>, <<"bachelors">>, <<"bachelor">>}, label)
    \/ /\ ~Test({<<"master">>, <<"phd">>, <<"mba">>, <<"doctorate">>,
                  <<"graduate">>}, label)
       /\ \/ Test({<<"infra">>, <<"infrastructure">>, <<"product">>,
                    <<"engineering">>}, label)
          \/ \E source \in {"linkedin", "job board", "google"} :
                 Includes(toLowerCase(label), source)

\* The literal retryMissingFields writes into an empty text input, by the
\* pattern its label matches in the DOM sweep; "" when none matches.
SweepLiteral(label) ==
    IF Test({<<"school">>, <<"university">>, <<"graduation">>,
             <<"grad", "date">>, <<"first", "name">>, <<"last", "name">>,
             <<"email">>, <<"phone">>, <<"internship">>, <<"how", "many">>,
             <<"gpa">>}, label)
        THEN "default" ELSE ""

\* labelTextFor(page, loc) for the control (or controls) named f: the label
\* it carries; "" for an input that has no label of its own because the label
\* names the group around it.
labelTextFor(fm, f) ==
    IF f \in FillTargets /\ fm.res[f] = "group" THEN "" ELSE Label(f)

\* What these tests say of each label text the passes can meet: the labels
\* of the form's controls and of its radio inputs, the empty label, and the
\* 'question' draftAnswer gets in place of an empty label.  `education` is
\* the test of the text branch for a school, date or degree label.
LabelTests ==
    [label \in {Label(f) : f \in TextFields \cup Boxes} \cup {"", "question"}
                \cup UNION {{o[i] : i \in 1..Len(o)} : o \in RadioOptions} |->
        [handled |-> SkipsAsHandled(label),
         phone |-> IsPhoneLabel(label),
         education |-> \/ Test({<<"school">>, <<"graduation">>, <<"grad", "date">>,
                                 <<"pick", "date">>, <<"degree", "type">>,
                                 <<"type", "degree">>}, label)
                       \/ Includes(toLowerCase(label), "date"),
         long |-> Len(label) > 10,
         canned |-> CannedPattern(label),
         checks |-> handleCheckbox(label),
         literal |-> SweepLiteral(label)]]

\* handleRadioGroup(page, radioName, groupLabel) on a group with these option
\* labels: the position of the radio it checks, which is the first one a
\* rule of the loop selects, or the first radio when no rule selects any.
handleRadioGroup(options, groupLabel) ==
    LET Selects(i) ==
            LET label == options[i]
                lowerLabel == toLowerCase(label)
                yes == Includes(lowerLabel, "yes")
            IN  \/ /\ \/ Test({<<"visa">>, <<"authorization">>,
                                <<"work", "status">>}, groupLabel)
                      \/ Test({<<"j1">>, <<"f1">>, <<"h1b">>, <<"tn">>, <<"opt">>,
                                <<"none">>, <<"other">>}, lowerLabel)
                   /\ (lowerLabel = "none" \/ Includes(lowerLabel, "none"))
                \/ /\ Test({<<"authorized", "work">>, <<"work", "authorized">>,
                             <<"lawfully", "work">>, <<"work", "lawfully">>},
                            groupLabel)
                   /\ yes
                \/ /\ \/ Test({<<"experience">>, <<"years">>}, groupLabel)
                      \/ label \in {"0", "1", "2", "3"}
                      \/ Includes(label, "3+")
                   /\ (label = "0" \/ lowerLabel = "0")
                \/ /\ Test({<<"office", "requirements">>, <<"relocate", "role">>,
                             <<"willing", "relocate">>,
                             <<"understand", "policy">>}, groupLabel)
                   /\ yes
                \/ /\ \E word \in {"age", "apac", "region"} :
                          Includes(toLowerCase(groupLabel), word)
                   /\ yes
                \/ yes /\ ~Includes(lowerLabel, "no")
        smart == {i \in 1..Len(options) : Selects(i)}
    IN  IF smart # {} THEN CHOOSE i \in smart : \A k \in smart : i <= k
        ELSE IF Len(options) > 0 THEN 1 ELSE 0

\* What handleRadioGroup checks in each radio group the form can hold, for
\* each of the labels the loop of autoAnswerFollowUps calls it with.
RadioChecks ==
    [options \in RadioOptions |->
        [i \in 1..Len(options) |-> handleRadioGroup(options, options[i])]]

\* A mutant of the mode test that lets confirm mode through to the text branch.
MutConfirmAnswersText(mode) == FALSE

\* `if (mode === 'confirm') continue;`
SkipsText(mode) == mode = "confirm"

\* The text branch of autoAnswerFollowUps for one control: a filled control
\* is left alone; an empty one gets the literal for a school, date or degree
\* label, the oracle's answer when its label is longer than 10 characters,
\* and otherwise what draftAnswer has for `label || 'question'`.
AnswerText(fm, f, oracle) ==
    IF ~Present(f) \/ SkipsText(fm.mode) \/ fm.val[f] # ""
        THEN fm
        ELSE LET label == labelTextFor(fm, f)
                 tests == LabelTests[label]
                 answer == IF tests.education THEN "education"
                           ELSE IF tests.long
                               THEN generateAIAnswer(oracle, tests.canned)
                               ELSE draftAnswer(
                                        LabelTests[IF label = "" THEN "question"
                                                   ELSE label].canned)
                 asked == IF ~tests.education /\ tests.long THEN 1 ELSE 0
             IN  IF answer = ""
                     THEN [fm EXCEPT !.oracleCalls = @ + asked]
                     ELSE [fm EXCEPT !.val[f] = answer, !.writes[f] = @ + 1,
                                     !.oracleCalls = @ + asked]

\* The five fillIfVisible calls for the identity fields (here: first name and
\* phone; the form has no other of them).
fillIdentityFields ==
    /\ form.pc = "identity"
    /\ form' = [FillField(FillField(form, "firstName", "profile"), "phone", "profile")
                   EXCEPT !.pc = "upload"]
    /\ UNCHANGED <<clientVars, run, attempt>>

\* uploadByLikelyLabel with triggerAutofillFromResume and the 3 s wait: the
\* file is set, the autofill is triggered, and the form writes what it read
\* in the resume into some of its identity fields.
triggerAutofillFromResume ==
    /\ form.pc = "upload"
    /\ \E filled \in SUBSET {t \in FillTargets : Present(t)} :
           form' = [form EXCEPT
                       !.pc = "links",
                       !.upload.sets = @ + 1,
                       !.upload.triggers = @ + 1,
                       !.val = [f \in TextFields |->
                                   IF f \in filled THEN "resume" ELSE form.val[f]]]
    /\ UNCHANGED <<clientVars, run, attempt>>

\* The fillIfVisible calls for the links (here: the LinkedIn profile).
fillLinkFields ==
    /\ form.pc = "links"
    /\ form' = [FillField(form, "linkedin", "profile") EXCEPT !.pc = "workAuth"]
    /\ UNCHANGED <<clientVars, run, attempt>>

\* selectByLabelOrType: the two selectOption calls, whose rejections are
\* caught, and then `select.fill(value)`, whose rejection is not.  On one
\* select, selectOption resolves when an option has the profile's text, and
\* fill rejects (a select is not an input); on one text input, selectOption
\* rejects and fill resolves.  A locator action on a locator that matches
\* several elements rejects with a strict mode violation.  When it returns,
\* applyAshby goes on to ensureRequiredPolicyAnswers.
selectByLabelOrType ==
    /\ form.pc = "workAuth"
    /\ form' = CASE form.count["workAuth"] = 0 ->
                        [form EXCEPT !.pc = "policy", !.policy.pc = "tasks"]
                 [] form.count["workAuth"] = 1
                        /\ (form.control = "input" \/ form.hasOption) ->
                        [form EXCEPT !.pc = "policy", !.policy.pc = "tasks",
                                     !.val["workAuth"] = "profile",
                                     !.writes["workAuth"] = @ + 1]
                 [] form.count["workAuth"] = 1
                        /\ ~(form.control = "input" \/ form.hasOption) ->
                        [form EXCEPT !.pc = "done", !.error = "not an input",
                                     !.outcome = "fail"]
                 [] OTHER -> [form EXCEPT !.pc = "done", !.error = "strict mode",
                                          !.outcome = "fail"]
    /\ UNCHANGED <<clientVars, run, attempt>>

\* `if ((await coverLetterField.count()) > 0) await coverLetterField.fill(...)`
fillCoverLetter ==
    /\ form.pc = "cover"
    /\ form' = CASE form.count["cover"] = 0 -> [form EXCEPT !.pc = "generic"]
                 [] form.count["cover"] = 1 ->
                        [form EXCEPT !.pc = "generic", !.val["cover"] = "profile",
                                     !.writes["cover"] = @ + 1]
                 [] OTHER -> [form EXCEPT !.pc = "done", !.error = "strict mode",
                                          !.outcome = "fail"]
    /\ UNCHANGED <<clientVars, run, attempt>>

\* The controls in document order.
FormOrder ==
    <<"firstName", "phone", "linkedin", "workAuth", "cover", "salary", "radio",
      "terms", "newsletter">>

\* The rounds of the loop `for (const loc of inputs)` of autoAnswerFollowUps
\* for one control: by the label labelTextFor gives, a field "already
\* handled" is skipped and a phone field is filled from the profile; then a
\* select gets the option smartSelectOption picks (the one it holds, or
\* another), a box goes through handleCheckbox, a text control (the work
\* authorization input among them) through the text branch.  The radio group
\* has one round for each of its radio inputs, which calls handleRadioGroup
\* with the label of that input.
AnswerField(fm, f, oracle, sameOption) ==
    IF f = "radio"
    THEN LET options == fm.radio.options
             RECURSIVE RadioFrom(_, _)
             RadioFrom(selected, i) ==
                 IF i > Len(options) THEN selected
                 ELSE IF LabelTests[options[i]].handled
                             \/ LabelTests[options[i]].phone
                     THEN RadioFrom(selected, i + 1)
                     ELSE RadioFrom(RadioChecks[options][i], i + 1)
         IN  [fm EXCEPT !.radio.selected = RadioFrom(fm.radio.selected, 1)]
    ELSE IF ~Present(f) \/ LabelTests[labelTextFor(fm, f)].handled
        THEN fm
        ELSE IF LabelTests[labelTextFor(fm, f)].phone
            THEN [fm EXCEPT !.val[f] = "profile", !.writes[f] = @ + 1]
            ELSE IF f = "workAuth" /\ fm.control = "select"
                THEN IF sameOption /\ fm.val[f] # ""
                         THEN fm
                         ELSE [fm EXCEPT !.val[f] = "smart", !.writes[f] = @ + 1]
                ELSE IF f \in Boxes
                    THEN [fm EXCEPT !.checked[f] =
                                        @ \/ LabelTests[labelTextFor(fm, f)].checks]
                    ELSE AnswerText(fm, f, oracle)

RECURSIVE AnswerFrom(_, _, _, _)
AnswerFrom(fm, i, oracle, sameOption) ==
    IF i > Len(FormOrder)
        THEN fm
        ELSE AnswerFrom(AnswerField(fm, FormOrder[i], oracle, sameOption),
                        i + 1, oracle, sameOption)

\* autoAnswerFollowUps over the controls of the form.
answerFields ==
    /\ form.pc = "generic"
    /\ \E oracle \in OracleResults, sameOption \in BOOLEAN :
         LET answered == AnswerFrom(form, 1, oracle, sameOption)
         IN  /\ answered.oracleCalls = form.oracleCalls => oracle = "answer"
             /\ (~Present("workAuth") \/ form.control = "input") => sameOption
             /\ form' = [answered EXCEPT !.pc = "submit"]
    /\ UNCHANGED <<clientVars, run, attempt>>

\* checkIfExists for the terms box, validateFormCompletion, the first click on
\* submit and the first findValidationErrors.
submitForm ==
    /\ form.pc = "submit"
    /\ \E e \in BOOLEAN :
           form' = [form EXCEPT !.pc = "while", !.clicks = @ + 1,
                                !.checked["terms"] = TRUE,
                                !.validationError = e]
    /\ UNCHANGED <<clientVars, run, attempt>>

\* The test of the while loop and what follows the loop.
formLoopTest ==
    /\ form.pc = "while"
    /\ form' = IF LoopContinues(form)
                   THEN [form EXCEPT !.pc = "fix", !.fixAttempt = 1]
                   ELSE [form EXCEPT !.pc = "done",
                                     !.error = IF form.validationError
                                                   THEN "validation" ELSE "none",
                                     !.outcome = IF form.validationError
                                                     THEN "fail" ELSE "ok"]
    /\ UNCHANGED <<clientVars, run, attempt>>

\* One call of retryMissingFields: the DOM sweep checks every unchecked box,
\* and writes a literal into every empty text input whose label it knows.
sweepForm ==
    /\ form.pc = "fix"
    /\ LET swept == [form EXCEPT
                        !.checked = [b \in Boxes |-> TRUE],
                        !.val = [f \in TextFields |->
                                    IF Present(f) /\ form.val[f] = ""
                                            /\ LabelTests[labelTextFor(form, f)].literal # ""
                                        THEN LabelTests[labelTextFor(form, f)].literal ELSE form.val[f]],
                        !.writes = [f \in TextFields |->
                                       IF Present(f) /\ form.val[f] = ""
                                               /\ LabelTests[labelTextFor(form, f)].literal # ""
                                           THEN form.writes[f] + 1
                                           ELSE form.writes[f]]]
       IN  form' = IF form.fixAttempt < fixPasses
                       THEN [swept EXCEPT !.fixAttempt = @ + 1]
                       ELSE [swept EXCEPT !.pc = "resubmit"]
    /\ UNCHANGED <<clientVars, run, attempt>>

\* The click of the loop body and the findValidationErrors after it.
resubmitForm ==
    /\ form.pc = "resubmit"
    /\ \E e \in BOOLEAN :
           form' = IF e THEN [form EXCEPT !.pc = "while", !.clicks = @ + 1,
                                          !.retryCount = @ + 1]
                        ELSE [form EXCEPT !.pc = "done", !.clicks = @ + 1,
                                          !.outcome = "ok"]
    /\ UNCHANGED <<clientVars, run, attempt>>

ClientBoot ==
    /\ queue = <<>>
    /\ autoSubmit = TRUE
    /\ mounted = 1
    /\ processingRef = [d \in Decks |-> FALSE]
    /\ inflight = <<>>
    /\ timers = EmptyBag
    /\ dashRecords = DashView(<<>>)
    /\ swipes = <<>>
    /\ hist = "none"
    /\ eligOrder = <<>>
    /\ lastOp = "other"
    /\ apiIn = Undefined
    /\ apiOut = Undefined

\* A form whose labels each resolve to one control or to none.
FormInit ==
    /\ ClientBoot
    /\ run = NoRun
    /\ attempt = NoAttempt
    /\ \E m \in {"auto", "confirm"},
          r \in [FillTargets -> {"none", "unique"}],
          c \in [CountTargets -> {0, 1}],
          k \in {"select", "input"}, opt \in BOOLEAN,
          o \in RadioOptions, preselected \in BOOLEAN, relocate \in BOOLEAN :
           /\ (c["workAuth"] = 0 \/ k = "input") => opt
           /\ c["workAuth"] = 0 => k = "select"
           /\ o = <<>> => ~preselected /\ relocate
           /\ form = [NoForm EXCEPT !.pc = "identity", !.mode = m, !.res = r,
                                    !.count = c, !.control = k, !.hasOption = opt,
                                    !.policy.willingToRelocate = relocate,
                                    !.radio = [options |-> o,
                                               selected |-> IF preselected
                                                   THEN Len(o) ELSE 0]]

\* A form whose labels resolve in any way.
ResolveInit ==
    /\ ClientBoot
    /\ run = NoRun
    /\ attempt = NoAttempt
    /\ \E r \in [FillTargets -> {"none", "unique", "ambiguous", "group"}],
          c \in [CountTargets -> {0, 1, 2}],
          k \in {"select", "input"}, opt \in BOOLEAN :
           /\ (c["workAuth"] = 0 \/ k = "input") => opt
           /\ c["workAuth"] = 0 => k = "select"
           /\ form = [NoForm EXCEPT !.pc = "identity", !.res = r, !.count = c,
                                    !.control = k, !.hasOption = opt]

\* ===================================================== uploadByLikelyLabel
\* The upload strategies of uploadByLikelyLabel for a resume file that exists,
\* on a page that stays open (count() resolves).  form.upload.pc is the
\* strategy about to be tried, "returned" when the function returned and
\* "thrown" when it let an exception out, which applyAshby's catch block
\* turns into a failed attempt.

\* The file was set: triggerAutofillFromResume is called, and the function
\* returns.
UploadSucceeded(u, strategy) ==
    [u EXCEPT !.pc = "returned", !.tried = Append(@, strategy),
              !.sets = @ + 1, !.triggers = @ + 1]

UploadMoveOn(u, strategy, next) ==
    [u EXCEPT !.pc = next, !.tried = Append(@, strategy)]

UploadThrew(u, strategy) ==
    [u EXCEPT !.pc = "thrown", !.tried = Append(@, strategy)]

\* Strategy 1: setInputFiles on the first input[type="file"], in a try block.
uploadDirectInput ==
    /\ form.pc = "upload"
    /\ form.upload.pc = "direct"
    /\ LET u == form.upload
       IN  form' = [form EXCEPT !.upload =
                IF u.directCount = 0 THEN [u EXCEPT !.pc = "labeled"]
                ELSE IF u.directSet = "ok" THEN UploadSucceeded(u, "direct")
                ELSE UploadMoveOn(u, "direct", "labeled")]
    /\ UNCHANGED <<clientVars, run, attempt>>

\* Strategy 2, one round of the loop over the labels: setInputFiles on what
\* getByLabel(label) matches, in a try block.
uploadLabeledInput ==
    /\ form.pc = "upload"
    /\ form.upload.pc = "labeled"
    /\ LET u == form.upload
           last == u.label = Len(UploadLabels)
           on == IF last THEN "button" ELSE "labeled"
           u2 == [u EXCEPT !.label = IF last THEN @ ELSE @ + 1]
       IN  form' = [form EXCEPT !.upload =
                IF u.labeled[u.label] = "none" THEN [u2 EXCEPT !.pc = on]
                ELSE IF u.labeled[u.label] = "ok" THEN UploadSucceeded(u, "labeled")
                ELSE UploadMoveOn(u2, "labeled", on)]
    /\ UNCHANGED <<clientVars, run, attempt>>

\* listenForFileChooser: the file chooser, null, or the exception of the
\* second click, which its catch block makes outside any try.
listenForFileChooser(u) ==
    IF u.chooser = "opens" THEN "chooser"
    ELSE IF u.secondClick = "ok" THEN "null"
    ELSE "THROW"

\* setFileOnFirstChooser: true, false, or the exception of setInputFiles on
\* the first file input, which it calls outside its try block.
setFileOnFirstChooser(u) ==
    IF u.lateChooser = "opens" /\ u.chooserSet = "ok" THEN "true"
    ELSE IF u.directCount = 0 THEN "false"
    ELSE IF u.directSet = "ok" THEN "true"
    ELSE "THROW"

\* Strategy 3: the upload button and the file chooser it opens.
uploadButtonChooser ==
    /\ form.pc = "upload"
    /\ form.upload.pc = "button"
    /\ LET u == form.upload
           listened == listenForFileChooser(u)
           second == setFileOnFirstChooser(u)
       IN  form' = [form EXCEPT !.upload =
                IF u.buttonCount = 0 THEN [u EXCEPT !.pc = "fallback"]
                ELSE IF listened = "THROW" THEN UploadThrew(u, "button")
                ELSE IF listened = "chooser"
                THEN (IF u.chooserSet = "ok" THEN UploadSucceeded(u, "button")
                      ELSE UploadThrew(u, "button"))
                ELSE IF second = "THROW" THEN UploadThrew(u, "button")
                ELSE IF second = "true" THEN UploadSucceeded(u, "button")
                ELSE UploadMoveOn(u, "button", "fallback")]
    /\ UNCHANGED <<clientVars, run, attempt>>

\* Strategy 4: the first file input once more, in a try block; then the
\* function returns.
uploadFallback ==
    /\ form.pc = "upload"
    /\ form.upload.pc = "fallback"
    /\ LET u == form.upload
       IN  form' = [form EXCEPT !.upload =
                IF u.directCount = 0 THEN [u EXCEPT !.pc = "returned"]
                ELSE IF u.directSet = "ok" THEN UploadSucceeded(u, "fallback")
                ELSE UploadMoveOn(u, "fallback", "returned")]
    /\ UNCHANGED <<clientVars, run, attempt>>

\* applyAshby after the upload: on to the next step, or into its catch block.
afterUpload ==
    /\ form.pc = "upload"
    /\ form.upload.pc \in {"returned", "thrown"}
    /\ form' = IF form.upload.pc = "thrown"
               THEN [form EXCEPT !.pc = "done", !.error = "upload", !.outcome = "fail"]
               ELSE [form EXCEPT !.pc = "links"]
    /\ UNCHANGED <<clientVars, run, attempt>>

UploadInit ==
    /\ ClientBoot
    /\ run = NoRun
    /\ attempt = NoAttempt
    /\ \E dc \in {0, 1}, ds \in {"ok", "throws"},
          lb \in [1..Len(UploadLabels) -> {"none", "ok", "throws"}],
          bc \in {0, 1}, ch \in {"opens", "timeout"}, cs \in {"ok", "throws"},
          sc \in {"ok", "throws"}, lc \in {"opens", "none"} :
           form = [NoForm EXCEPT
                     !.pc = "upload",
                     !.upload = [NoUpload EXCEPT
                        !.pc = "direct", !.directCount = dc, !.directSet = ds,
                        !.labeled = lb, !.buttonCount = bc, !.chooser = ch,
                        !.chooserSet = cs, !.secondClick = sc, !.lateChooser = lc]]

UploadNext ==
    \/ uploadDirectInput
    \/ uploadLabeledInput
    \/ uploadButtonChooser
    \/ uploadFallback
    \/ afterUpload

UploadSpec == UploadInit /\ [][UploadNext]_vars

\* ============================================== ensureRequiredPolicyAnswers
\* The page holds some of the three policy questions, each in a container of
\* its own, in form.policy.order (document order); form.policy.wrapped says
\* whether an element of the kinds answerQuestionBlock searches (section,
\* fieldset, article, div, form) encloses the whole form.  Such an element
\* has the text of every question, so it is the first container of each; it
\* holds the form's own radio group and boxes too, in front of the questions
\* (form.policy.boxesFirst) or behind them.

\* /yes|authorized|eligible|citizen|lawfully/i.test(workAuthAnswer)
workAuthYes(answer) ==
    Test({<<"yes">>, <<"authorized">>, <<"eligible">>, <<"citizen">>,
          <<"lawfully">>}, answer)

\* The `yes` of each task.
TaskYes(pol, q) ==
    CASE q = "authorized" -> workAuthYes(pol.workAuth)
      [] q = "office" -> pol.understandsAnchorDays
      [] q = "relocate" -> pol.willingToRelocate

\* The option labels a radio group can have: the affirmative one, then the
\* negative one.
OptionLabels == {<<"Yes", "No">>, <<"I am", "I am not">>}

\* buildAffirmativeRegex(preferYes) tested on an option's label:
\* /^(yes|i\s*(am|do|...)|agree|confirm|willing)/i or /^(no|not|unable|cannot|won't)/i.
buildAffirmativeRegex(preferYes, label) ==
    LET text == toLowerCase(label)
        StartsWith(t, word) == Len(t) >= Len(word) /\ SubSeq(t, 1, Len(word)) = word
        spaces == IF Len(text) >= 2 /\ SubSeq(text, 1, 1) = "i"
                      THEN {n \in 0..(Len(text) - 1) :
                               \A k \in 2..(n + 1) : SubSeq(text, k, k) = " "}
                      ELSE {}
    IN  IF preferYes
        THEN \/ \E word \in {"yes", "agree", "confirm", "willing"} :
                   StartsWith(text, word)
             \/ \E n \in spaces, word \in {"am", "do", "understand", "acknowledge",
                                            "agree", "will", "can"} :
                   StartsWith(SubSeq(text, n + 2, Len(text)), word)
        ELSE \E word \in {"no", "not", "unable", "cannot", "won't"} :
                 StartsWith(text, word)

\* The controls of the page that the policy answers can reach, in document
\* order: the policy questions, and in front of them or behind them the
\* form's own radio group (when it has one) and boxes.
PageControls(fm) ==
    LET own == (IF fm.radio.options = <<>> THEN <<>> ELSE <<"radio">>)
                   \o <<"terms", "newsletter">>
    IN  IF fm.policy.boxesFirst THEN own \o fm.policy.order
        ELSE fm.policy.order \o own

\* The radio groups among the controls of a scope, in document order.
RadiosIn(scope) == SelectSeq(scope, LAMBDA q : q \in RadioTasks \cup {"radio"})

\* getByRole('radio', { name: yesRegex }).first() in a scope: the group and
\* the position of the first radio whose label matches; <<>> when none does.
RECURSIVE FirstRadioByRole(_, _, _)
FirstRadioByRole(groups, fm, preferYes) ==
    IF groups = <<>> THEN <<>>
    ELSE LET options == IF Head(groups) = "radio" THEN fm.radio.options
                        ELSE fm.policy.options
             named == {i \in 1..Len(options) :
                          buildAffirmativeRegex(preferYes, options[i])}
         IN  IF named # {}
             THEN <<Head(groups), CHOOSE i \in named : \A k \in named : i <= k>>
             ELSE FirstRadioByRole(Tail(groups), fm, preferYes)

\* radio.check() on the radio at position i of a group.
CheckRadio(fm, group, i) ==
    IF group = "radio" THEN [fm EXCEPT !.radio.selected = i]
    ELSE [fm EXCEPT !.policy.selected[group] = i]

\* answerWithinBlock on the container whose controls are `scope`: the form
\* after it, with .policy.handled extended when it returned true.  For kind
\* 'checkbox' it checks the first checkbox of the block, whichever it is.
answerWithinBlock(fm, q, scope, kind, preferYes) ==
    IF kind = "checkbox"
    THEN LET boxes == SelectSeq(scope, LAMBDA c : c \in Boxes \cup {"office"})
         IN  IF boxes = <<>> THEN fm
             ELSE IF Head(boxes) = "office"
             THEN [fm EXCEPT !.policy.officeChecked = TRUE,
                             !.policy.handled = @ \cup {q}]
             ELSE [fm EXCEPT !.checked[Head(boxes)] = TRUE,
                             !.policy.handled = @ \cup {q}]
    ELSE LET byRole == FirstRadioByRole(RadiosIn(scope), fm, preferYes)
             groups == RadiosIn(scope)
         IN  IF byRole # <<>>
             THEN [CheckRadio(fm, byRole[1], byRole[2]) EXCEPT
                      !.policy.handled = @ \cup {q}]
             ELSE IF groups # <<>>
             THEN [CheckRadio(fm, Head(groups), 1) EXCEPT
                      !.policy.handled = @ \cup {q}]
             ELSE fm

\* The containers that have the text of question q, in document order, each
\* given by the controls inside it: none when the page does not hold the
\* question; otherwise the enclosing element, when there is one, and then the
\* question's own container.  The enclosing element holds every control of
\* the page.
Containers(fm, q) ==
    IF \E i \in 1..Len(fm.policy.order) : fm.policy.order[i] = q
    THEN (IF fm.policy.wrapped THEN <<PageControls(fm)>> ELSE <<>>) \o <<(<<q>>)>>
    ELSE <<>>

\* The loop of answerQuestionBlock over the containers from position i on.
RECURSIVE AnswerInContainers(_, _, _, _, _, _)
AnswerInContainers(fm, q, cs, i, kind, preferYes) ==
    IF i > Len(cs) THEN fm
    ELSE LET after == answerWithinBlock(fm, q, cs[i], kind, preferYes)
         IN  IF q \in after.policy.handled THEN after
             ELSE AnswerInContainers(after, q, cs, i + 1, kind, preferYes)

\* The global fallbacks of answerQuestionBlock: a checkbox named by the
\* question; for a radio task the first radio of the page whose label
\* matches, be it a radio of a policy question or of the form's own group.
GlobalFallback(fm, q, kind, preferYes) ==
    LET pol == fm.policy
    IN  IF kind = "checkbox"
        THEN IF \E i \in 1..Len(pol.order) : pol.order[i] = q
             THEN [fm EXCEPT !.policy.officeChecked = TRUE,
                             !.policy.handled = @ \cup {q}]
             ELSE fm
        ELSE LET byRole == FirstRadioByRole(RadiosIn(PageControls(fm)), fm, preferYes)
             IN  IF byRole # <<>>
                 THEN [CheckRadio(fm, byRole[1], byRole[2]) EXCEPT
                          !.policy.handled = @ \cup {q}]
                 ELSE fm

\* One round of the loop of ensureRequiredPolicyAnswers: answerQuestionBlock
\* for the next task.
answerQuestionBlock ==
    /\ form.pc = "policy"
    /\ form.policy.pc = "tasks"
    /\ LET pol == form.policy
           q == PolicyTasks[pol.task]
           kind == IF q \in RadioTasks THEN "radio" ELSE "checkbox"
           inBlocks == AnswerInContainers(form, q, Containers(form, q), 1, kind, TaskYes(pol, q))
           after == IF q \in inBlocks.policy.handled THEN inBlocks
                    ELSE GlobalFallback(inBlocks, q, kind, TaskYes(pol, q))
       IN  form' = [after EXCEPT
                      !.policy.task = IF pol.task = Len(PolicyTasks) THEN @ ELSE @ + 1,
                      !.policy.pc = IF pol.task = Len(PolicyTasks) THEN "ensured" ELSE "tasks"]
    /\ UNCHANGED <<clientVars, run, attempt>>

\* applyAshby goes on to the cover letter.
afterPolicy ==
    /\ form.pc = "policy"
    /\ form.policy.pc = "ensured"
    /\ form' = [form EXCEPT !.pc = "cover"]
    /\ UNCHANGED <<clientVars, run, attempt>>

\* The orders in which a page can hold some of the questions.
PolicyOrders ==
    {o \in UNION {[1..n -> {"authorized", "office", "relocate"}] : n \in 0..3} :
        \A i, k \in 1..Len(o) : i # k => o[i] # o[k]}

PolicyInit ==
    /\ ClientBoot
    /\ run = NoRun
    /\ attempt = NoAttempt
    /\ \E wa \in WorkAuthAnswers, anchor \in BOOLEAN, relocate \in BOOLEAN,
          w \in BOOLEAN, front \in BOOLEAN, o \in PolicyOrders,
          labels \in OptionLabels :
           form = [NoForm EXCEPT
                     !.pc = "policy",
                     !.policy = [NoPolicy EXCEPT
                        !.pc = "tasks", !.workAuth = wa,
                        !.understandsAnchorDays = anchor, !.willingToRelocate = relocate,
                        !.wrapped = w, !.boxesFirst = front, !.order = o,
                        !.options = labels]]

PolicyNext == answerQuestionBlock \/ afterPolicy

PolicySpec == PolicyInit /\ [][PolicyNext]_vars

\* The steps of applyAshby on the form, from the identity fills to the end
\* of the retry loop, ensureRequiredPolicyAnswers among them.
FormNext ==
    \/ fillIdentityFields
    \/ triggerAutofillFromResume
    \/ fillLinkFields
    \/ selectByLabelOrType
    \/ answerQuestionBlock
    \/ afterPolicy
    \/ fillCoverLetter
    \/ answerFields
    \/ submitForm
    \/ formLoopTest
    \/ sweepForm
    \/ resubmitForm

FormSpec == FormInit /\ [][FormNext]_vars

ResolveSpec == ResolveInit /\ [][FormNext]_vars

\* ================================================= submitApplicationRecord
\* One processQueue call followed from its start to its catch block, with the
\* request to /api/apply-ashby and the route handler that answers it.
\* attempt.thrown is the message of the Error that submitApplicationRecord
\* threw ("none": it returned); attempt.message is what the catch block
\* stored in the record's `error`.

EngineOutcomes == {"ok", "fail", "escaped"}
EngineMessages == {"", "Validation failed after 5 retry attempts"}

\* The route handler POST: the result of applyAshby as JSON with status 200,
\* or, when applyAshby rejects, { ok: false, error: message } with status 500.
POST(outcome, message) ==
    CASE outcome = "ok" ->
            [delivered |-> TRUE, status |-> 200, json |-> TRUE, ok |-> TRUE, error |-> ""]
      [] outcome = "fail" ->
            [delivered |-> TRUE, status |-> 200, json |-> TRUE, ok |-> FALSE, error |-> message]
      [] outcome = "escaped" ->
            [delivered |-> TRUE, status |-> 500, json |-> TRUE, ok |-> FALSE, error |-> message]

\* What fetch can meet: a request that is not delivered, an answer of the
\* route handler, or a page that is not JSON (a gateway error, a login page).
Exchanges ==
    {NoExchange}
    \cup {POST(o, m) : o \in EngineOutcomes, m \in EngineMessages}
    \cup {[delivered |-> TRUE, status |-> st, json |-> FALSE, ok |-> FALSE, error |-> ""] :
              st \in {200, 502}}

\* `await response.json().catch(() => ({}))`
ResponseData(exchange) ==
    IF exchange.json THEN [ok |-> exchange.ok, error |-> exchange.error]
    ELSE [ok |-> FALSE, error |-> ""]

\* response.ok
ResponseOk(exchange) == exchange.status >= 200 /\ exchange.status <= 299

\* `HTTP ${response.status}`
HttpText(status) == "HTTP " \o ToString(status)

\* A mutant of the test on the response that looks at the status only.
MutTrustsStatus(exchange) == ~ResponseOk(exchange)

\* `!response.ok || !data?.ok`
SubmissionFailed(exchange) == ~ResponseOk(exchange) \/ ~ResponseData(exchange).ok

\* `data?.error || \`HTTP ${response.status}\``
FailureText(exchange) ==
    IF ResponseData(exchange).error # "" THEN ResponseData(exchange).error
    ELSE HttpText(exchange.status)

\* processQueue from its call to the await of submitApplicationRecord.
processQueueStart ==
    /\ attempt.pc = "start"
    /\ LET next == getNextQueuedApplication(queue)
       IN  IF next = Undefined
           THEN /\ attempt' = [attempt EXCEPT !.pc = "returned"]
                /\ UNCHANGED <<queue, processingRef>>
           ELSE /\ processingRef' = [processingRef EXCEPT ![mounted] = TRUE]
                /\ queue' = updateApplicationRecord(queue, next.jobId, StartUpdate)
                /\ attempt' = [attempt EXCEPT !.pc = "guards", !.jobId = next.jobId]
    /\ UNCHANGED <<autoSubmit, mounted, inflight, timers, dashRecords,
                   swipes, hist, eligOrder, lastOp, apiIn, apiOut, run, form>>

\* submitApplicationRecord up to the fetch: the two guards on record.job.
submitGuards ==
    /\ attempt.pc = "guards"
    /\ attempt' =
          IF attempt.provider # "ashby"
          THEN [attempt EXCEPT !.pc = "catch",
                               !.thrown = "Auto-submit currently supports Ashby jobs only."]
          ELSE IF ~attempt.atsUrl
          THEN [attempt EXCEPT !.pc = "catch", !.thrown = "Missing ATS URL for job."]
          ELSE [attempt EXCEPT !.pc = "fetch"]
    /\ UNCHANGED <<clientVars, run, form>>

\* `await fetch('/api/apply-ashby', ...)`: the request is issued; fetch rejects
\* when it is not delivered.
fetchApply ==
    /\ attempt.pc = "fetch"
    /\ attempt' =
          IF ~attempt.exchange.delivered
          THEN [attempt EXCEPT !.pc = "catch", !.requests = @ + 1,
                               !.thrown = "Failed to fetch"]
          ELSE [attempt EXCEPT !.pc = "response", !.requests = @ + 1]
    /\ UNCHANGED <<clientVars, run, form>>

\* The body is read and the response judged.
readResponse ==
    /\ attempt.pc = "response"
    /\ attempt' =
          IF SubmissionFailed(attempt.exchange)
          THEN [attempt EXCEPT !.pc = "catch", !.thrown = FailureText(attempt.exchange)]
          ELSE [attempt EXCEPT !.pc = "resolved"]
    /\ UNCHANGED <<clientVars, run, form>>

\* The finally block of the call processQueue() of the mounted instance.
AttemptFinally ==
    /\ processingRef' = [processingRef EXCEPT ![mounted] = FALSE]
    /\ timers' = IF autoSubmit /\ getNextQueuedApplication(queue') # Undefined
                 THEN AddTimer(timers, AutoTimer(mounted))
                 ELSE timers

\* The rest of the try block after submitApplicationRecord returned, and the
\* finally block.
recordSuccess ==
    /\ attempt.pc = "resolved"
    /\ queue' = updateApplicationRecord(queue, attempt.jobId, SuccessUpdate)
    /\ swipes' = saveJobSwipe(swipes, attempt.jobId, "applied")
    /\ attempt' = [attempt EXCEPT !.pc = "done"]
    /\ AttemptFinally
    /\ UNCHANGED <<autoSubmit, mounted, inflight, dashRecords,
                   hist, eligOrder, lastOp, apiIn, apiOut, run, form>>

\* The catch block of processQueue, and the finally block.
recordFailure ==
    /\ attempt.pc = "catch"
    /\ queue' = updateApplicationRecord(queue, attempt.jobId, FailureUpdate)
    /\ attempt' = [attempt EXCEPT !.pc = "done", !.message = attempt.thrown]
    /\ AttemptFinally
    /\ UNCHANGED <<autoSubmit, mounted, inflight, dashRecords,
                   swipes, hist, eligOrder, lastOp, apiIn, apiOut, run, form>>

\* A stored queue of at most NumJobs records, the call processQueue() of the
\* deck's mount effect, the job of the first eligible record and the exchange
\* its request will meet.
SubmitInit ==
    /\ queue \in RestingQueues
    /\ autoSubmit = TRUE
    /\ mounted = 1
    /\ processingRef = [d \in Decks |-> FALSE]
    /\ inflight = <<>>
    /\ timers = EmptyBag
    /\ dashRecords = DashView(<<>>)
    /\ swipes = <<>>
    /\ hist = "none"
    /\ eligOrder = <<>>
    /\ lastOp = "other"
    /\ apiIn = Undefined
    /\ apiOut = Undefined
    /\ run = NoRun
    /\ form = NoForm
    /\ \E pr \in Providers, url \in BOOLEAN, ex \in Exchanges :
           attempt = [NoAttempt EXCEPT !.pc = "start", !.provider = pr,
                                       !.atsUrl = url, !.exchange = ex]

SubmitNext ==
    \/ processQueueStart
    \/ submitGuards
    \/ fetchApply
    \/ readResponse
    \/ recordSuccess
    \/ recordFailure

SubmitSpec == SubmitInit /\ [][SubmitNext]_vars

\* ================================================================ claims
Applying(q) == {i \in 1..Len(q) : q[i].status = "applying"}
Started == Len(inflight') > Len(inflight)
StartedJob == inflight'[Len(inflight')].jobId

\* C1: the status of the record of a jobId changes only along
\* queued->applying, applying->applied, applying->failed, failed->queued.
LifecycleSteps ==
    {<<"queued", "applying">>, <<"applying", "applied">>,
     <<"applying", "failed">>, <<"failed", "queued">>}

C1_StatusLifecycle ==
    [][\A j \in Jobs :
          (/\ FindIndex(queue, j) # 0
           /\ FindIndex(queue', j) # 0
           /\ StatusOf(queue, j) # StatusOf(queue', j))
          => <<StatusOf(queue, j), StatusOf(queue', j)>> \in LifecycleSteps]_vars

\* C2: at most one record of the persisted queue has status applying.
C2_AtMostOneApplying == Cardinality(Applying(queue)) <= 1

\* C3: at most one submission attempt (request to the apply engine) is in
\* flight at any time.
C3_OneAttemptInFlight == Len(inflight) <= 1

\* C4: a processQueue call made while the processing flag of its instance is
\* set (a timer callback, forced or not, or the toggle's effect) changes no
\* record, starts no attempt and leaves the flag set.
C4_BusyCallIsNoOp ==
    [][\A d \in Decks :
          (/\ processingRef[d]
           /\ \/ \E t \in TimerKinds :
                    t.deck = d /\ CopiesIn(t, timers') < CopiesIn(t, timers)
              \/ (mounted = d /\ ~autoSubmit /\ autoSubmit'))
          => (queue' = queue /\ inflight' = inflight /\ processingRef'[d])]_vars

\* A forced call was refused while an eligible record waited.
C4_Witness ==
    /\ lastOp = "blockedForced"
    /\ \E d \in Decks : processingRef[d]
    /\ getNextQueuedApplication(queue) # Undefined

\* C5: enqueueApplication replaces the record of a jobId already present
\* (length unchanged, stored record equal to the input in every field) and
\* otherwise lengthens the queue by exactly one.
C5_EnqueueUpserts ==
    [][/\ lastOp' = "replace" =>
            /\ Len(queue') = Len(queue)
            /\ RecordOf(queue', apiIn'.jobId) = apiIn'
            /\ Cardinality({i \in 1..Len(queue') : queue'[i].jobId = apiIn'.jobId}) = 1
       /\ lastOp' = "append" =>
            /\ Len(queue') = Len(queue) + 1
            /\ RecordOf(queue', apiIn'.jobId) = apiIn']_vars

\* A record whose status is applied has replaced the record of its jobId in a
\* queue of two.
C5_Witness ==
    /\ lastOp = "replace"
    /\ apiIn.status = "applied"
    /\ ~apiIn.error
    /\ Len(queue) = 2
    /\ RecordOf(queue, apiIn.jobId) = apiIn

\* C6: no two records of the persisted queue share a jobId.
C6_UniqueJobIds ==
    \A i, k \in 1..Len(queue) : i # k => queue[i].jobId # queue[k].jobId

\* A jobId already present was enqueued again, next to another record.
C6_Witness ==
    /\ lastOp = "replace"
    /\ Len(queue) = 2
    /\ inflight # <<>>

\* C7 as claimed: the record started is the one that became eligible first.
C7_EligibilityOrder ==
    [][Started => StartedJob = Head(eligOrder)]_vars

\* C7 as amended: the record started is the eligible record at the lowest
\* position of the stored queue, whenever it became eligible.
C7_QueueOrder ==
    [][Started =>
          /\ IsEligible(RecordOf(queue, StartedJob))
          /\ \A i \in 1..Len(queue) :
                i < FindIndex(queue, StartedJob) => ~IsEligible(queue[i])]_vars

\* A failed record has just been started again while a queued record stands
\* behind it in the queue.
C7_Witness ==
    /\ lastOp = "restart"
    /\ inflight # <<>>
    /\ eligOrder # <<>>
    /\ StatusOf(queue, Head(eligOrder)) = "queued"
    /\ FindIndex(queue, inflight[Len(inflight)].jobId)
          < FindIndex(queue, Head(eligOrder))

\* C8: under auto-drain with the user away, draining eventually stops for
\* good: no attempt in flight and none scheduled.
C8_DrainStops == <>[](inflight = <<>> /\ timers = EmptyBag)

\* C9: while auto-submit is off, an attempt starts only from a forced call.
C9_NoStartWhileOff ==
    [][(Started /\ ~autoSubmit') => inflight'[Len(inflight')].force]_vars

\* C10: a record carries an error only while failed and an appliedAt only
\* while applied.
C10_OptionalFields ==
    \A i \in 1..Len(queue) :
        /\ queue[i].error => queue[i].status = "failed"
        /\ queue[i].appliedAt => queue[i].status = "applied"

\* C11: a jobId leaves the queue only in a step of the dashboard's Remove
\* handler (removeApplication), which takes out that jobId alone, and the
\* record it takes out is applied or failed in the stored queue.
JobIds(q) == {q[i].jobId : i \in 1..Len(q)}

C11_OnlyRemoveDrops ==
    [][\A j \in JobIds(queue) \ JobIds(queue') :
          /\ lastOp' = "remove"
          /\ StatusOf(queue, j) \in {"applied", "failed"}
          /\ JobIds(queue') = JobIds(queue) \ {j}]_vars

\* C12: after a restart at any point, no record is left applying while no
\* attempt for it is in flight (every record short of applied can still be
\* processed).
C12_NoOrphanApplying ==
    \A i \in 1..Len(queue) :
        queue[i].status = "applying"
            => \E k \in 1..Len(inflight) : inflight[k].jobId = queue[i].jobId

\* C13: when the record of a jobId becomes applied, the swipe store then holds
\* exactly one entry for that jobId, with action applied; a step in which a
\* record becomes failed leaves the swipe store as it was.
SwipesOf(sw, j) == SelectSeq(sw, LAMBDA swipe : swipe.jobId = j)

C13_AppliedIsRegistered ==
    [][\A j \in Jobs :
          /\ (StatusOf(queue, j) # "applied" /\ StatusOf(queue', j) = "applied")
                => SwipesOf(swipes', j) = <<[jobId |-> j, action |-> "applied"]>>
          /\ (StatusOf(queue, j) # "failed" /\ StatusOf(queue', j) = "failed")
                => swipes' = swipes]_vars

\* A record is applied and the entry of its job is the last of the swipe
\* store, behind the skipped entry of the other job.
C13_Witness ==
    /\ \E j \in Jobs :
          /\ StatusOf(queue, j) = "applied"
          /\ Len(swipes) = 2
          /\ swipes[2] = [jobId |-> j, action |-> "applied"]
          /\ swipes[1].action = "skipped"

\* C14: getNextQueuedApplication returns the record at the lowest position of
\* the stored queue whose status is queued or failed, and undefined when there
\* is none; it never returns a record that is applying or applied.
C14_NextIsFirstEligible ==
    lastOp = "next" =>
        /\ apiOut.status \notin {"applying", "applied"}
        /\ apiOut = Undefined
              <=> \A i \in 1..Len(queue) : queue[i].status \notin {"queued", "failed"}
        /\ apiOut # Undefined
              => \E i \in 1..Len(queue) :
                    /\ queue[i] = apiOut
                    /\ \A k \in 1..(i - 1) : queue[k].status \notin {"queued", "failed"}

\* The call returned the failed record at the head of the queue, ahead of a
\* queued record.
C14_Witness ==
    /\ lastOp = "next"
    /\ Len(queue) = 2
    /\ queue[1].status = "failed"
    /\ queue[2].status = "queued"
    /\ apiOut = queue[1]

\* C15: the validation retry loop terminates whatever the validation results
\* are: the call always comes to its end; the loop makes at most maxRetries
\* (5) resubmissions, each after at most fixPasses (3) corrective passes, so
\* the submit control is clicked at most maxRetries + 1 (6) times; and a
\* validation error that is still there when the loop gives up takes the call
\* to its failure path, never to { ok: true }.
C15_RetryLoopBounded ==
    /\ [](/\ run.retryCount <= maxRetries
          /\ run.fixAttempt <= fixPasses
          /\ run.clicks <= maxRetries + 1
          /\ run.error = "validation" =>
                 run.retryCount = maxRetries /\ run.pending # "ok"
                     /\ run.outcome # "ok")
    /\ [][run.pc = "while" /\ run.validationError /\ ~LoopContinues(run) =>
              run'.pc = "catch" /\ run'.error = "validation"]_vars
    /\ [][run'.clicks > run.clicks /\ run.loopEntered =>
              run.fixAttempt = fixPasses /\ run'.clicks = run.clicks + 1]_vars
    /\ <>(run.pc = "done")

\* The loop has used up every resubmission and the call has ended with the
\* failure result of the validation error, after six clicks.
C15_Witness ==
    /\ run.pc = "done"
    /\ run.error = "validation"
    /\ run.outcome = "fail"
    /\ run.retryCount = maxRetries
    /\ run.fixAttempt = fixPasses
    /\ run.clicks = maxRetries + 1

\* C16: with a resume path that names no file the call fails at once with the
\* file-not-found error: no form field has been written, no upload strategy
\* tried, the submit control never clicked and the retry loop never entered.
C16_MissingResumeFailsFirst ==
    ~run.resumeExists =>
        /\ run.written = {}
        /\ ~run.uploadTried
        /\ run.clicks = 0
        /\ ~run.loopEntered

\* C17: applyAshby lets no exception out: whatever step fails, the caller gets
\* { ok: true, ... } or { ok: false, error, ... }.
C17_NoExceptionEscapes ==
    run.pc = "done" => run.outcome \in {"ok", "fail"}

\* C18: when applyAshby hands control back, close() has been called on the
\* context and on the browser it opened, also when closing the context failed:
\* neither is left open without an attempt to close it.
C18_TornDown ==
    run.pc = "done" => run.context # "open" /\ run.browser # "open"

\* C19: every result, { ok: true } and { ok: false } alike, carries the path
\* of a screenshot written before the return.
C19_ScreenshotOnEveryOutcome ==
    run.outcome \in {"ok", "fail"} => run.shot

\* C20: a failure of the answer oracle (a rejected request, an empty or a
\* malformed response) never fails the call: the answer is the one of the
\* canned table, a field the table has nothing for is only recorded as
\* unfilled, and the call goes on to the submission unless another step of
\* the pass (not the oracle) rejects.
C20_OracleFailureIsAbsorbed ==
    /\ [](run.error # "oracle")
    /\ [][run.pc = "followUps" /\ run'.oracle \in {"empty", "malformed", "throws"} =>
              /\ run'.answer \in {draftAnswer(TRUE), draftAnswer(FALSE)}
              /\ run'.answer = "" => run'.unfilled
              /\ run'.error # "form" =>
                     run'.pc = "submit" /\ run'.error = "none"]_vars

\* The oracle's request was rejected, the canned table had nothing, the field
\* was recorded as unfilled, and the call has ended with { ok: true }.
C20_Witness ==
    /\ run.oracle = "throws"
    /\ run.answer = ""
    /\ run.unfilled
    /\ run.outcome = "ok"

\* C21: an empty open-ended field whose label matches a canned-answer pattern
\* ("Expected salary range") gets the canned literal, and no oracle call is
\* made for it.
C21_CannedBeforeOracle ==
    [][form.pc = "generic" /\ form.mode = "auto" /\ form.val["salary"] = "" =>
           /\ form'.val["salary"] = draftAnswer(LabelTests[Label("salary")].canned)
           /\ form'.oracleCalls = form.oracleCalls]_vars

\* C22: the generic pass and the corrective passes leave every field alone
\* whose value is not empty.
C22_FilledFieldsKept ==
    [][form.pc \in {"generic", "fix"} =>
           \A f \in TextFields :
               form.val[f] # "" => form'.val[f] = form.val[f]]_vars

\* C23: the generic pass writes to no field whose label is an identity term
\* (name, phone, links), and each such field is written at most once in an
\* attempt.
C23_IdentitySkippedByGenericPass ==
    /\ [][form.pc = "generic" =>
              \A f \in FillTargets :
                  /\ form'.val[f] = form.val[f]
                  /\ form'.writes[f] = form.writes[f]]_vars
    /\ [](\A f \in FillTargets : form.writes[f] <= 1)

\* C24: once the form's autofill has run, no later step replaces the value it
\* left in an identity field.
C24_AutofillNotClobbered ==
    [][form.pc \notin {"idle", "identity", "upload"} =>
           \A f \in FillTargets \cup CountTargets :
               form.val[f] = "resume" => form'.val[f] = "resume"]_vars

\* C25: at every click on submit the terms box is checked and the newsletter
\* box, whose label has no affirmative pattern, is not.
C25_OnlyAffirmativeBoxesChecked ==
    [][form'.clicks > form.clicks =>
           form'.checked["terms"] /\ ~form'.checked["newsletter"]]_vars

\* C26: an identity step whose target resolves to no control or to several
\* writes nothing, guesses no control, raises no error, and the attempt goes
\* on to the next step.
C26_ResolutionErrorsNotFatal ==
    /\ [](form.error # "strict mode" /\ form.guessed = {})
    /\ [][/\ form.pc = "identity" =>
                 \A t \in {"firstName", "phone"} :
                     form.res[t] # "unique" => form'.val[t] = form.val[t]
          /\ form.pc = "links" /\ form.res["linkedin"] # "unique" =>
                 form'.val["linkedin"] = form.val["linkedin"]
          /\ form.pc = "workAuth" /\ form.count["workAuth"] # 1 =>
                 form'.val["workAuth"] = form.val["workAuth"] /\ form'.pc = "cover"
          /\ form.pc = "cover" /\ form.count["cover"] # 1 =>
                 form'.val["cover"] = form.val["cover"] /\ form'.pc = "generic"]_vars

\* C27: when the retries are used up and the validation error is still
\* there, the call returns { ok: false } whose message holds the last
\* validation text found and, for every category whose keyword the text
\* includes, its suggestion; it never returns { ok: true }.
C27_ValidationFailureResult ==
    run.pc = "done" /\ run.validationError /\ run.retryCount = maxRetries
            /\ run.error \in {"none", "validation"} =>
        /\ run.outcome = "fail"
        /\ run.error = "validation"
        /\ run.message.text = run.text
        /\ run.message.suggestions = extractMissingFieldSuggestions(run.text)

\* C28: in confirm mode no oracle call is made and the generic pass writes no
\* answer into a text or textarea control; in either mode the identity fills
\* and the resume upload are made, and the generic pass fills the phone, picks
\* an option of the select, checks the boxes handleCheckbox checks, and in a
\* radio group checks the first radio whose label has "yes" in it, or the
\* first radio when no label has.
C28_ConfirmSkipsFreeText ==
    /\ [](form.mode = "confirm" => form.oracleCalls = 0)
    /\ [][form.pc = "generic" =>
              /\ form.mode = "confirm" =>
                     \A f \in {"cover", "salary"} :
                         form'.val[f] = form.val[f] /\ form'.writes[f] = form.writes[f]
              /\ Present("phone") => form'.val["phone"] = "profile"
              /\ Present("workAuth") => form'.val["workAuth"] \in {"profile", "smart"}
              /\ \A b \in Boxes :
                     form'.checked[b] = (form.checked[b] \/ LabelTests[Label(b)].checks)
              /\ LET options == form.radio.options
                     yes == {i \in 1..Len(options) :
                                Includes(toLowerCase(options[i]), "yes")}
                 IN  form'.radio.selected =
                         IF options = <<>> THEN 0
                         ELSE IF yes = {} THEN 1
                         ELSE CHOOSE i \in yes : \A k \in yes : i <= k]_vars
    /\ [][form.pc = "upload" =>
              /\ form'.upload.sets = 1
              /\ form'.upload.triggers = 1
              /\ form'.pc = "links"]_vars
    /\ [][/\ form.pc = "identity" =>
                 \A t \in {"firstName", "phone"} :
                     form.res[t] = "unique" => form'.val[t] = "profile"
          /\ form.pc = "links" /\ form.res["linkedin"] = "unique" =>
                 form'.val["linkedin"] = "profile"
          /\ form.pc = "cover" /\ form.count["cover"] = 1 =>
                 form'.val["cover"] = "profile"]_vars

\* A confirm-mode call has ended with { ok: true }: the resume was set, the
\* identity fields, the select and the terms box were handled, the radio
\* group has "Yes" checked, the salary question is still empty.
C28_Witness ==
    /\ form.mode = "confirm"
    /\ form.outcome = "ok"
    /\ form.upload.sets = 1
    /\ form.radio.options = <<"Yes", "No">>
    /\ form.radio.selected = 1
    /\ form.val["firstName"] = "profile"
    /\ form.val["phone"] = "profile"
    /\ form.val["workAuth"] = "smart"
    /\ form.checked["terms"]
    /\ form.val["salary"] = ""
    /\ form.oracleCalls = 0

\* C29: when the first submit shows a validation error and the first
\* resubmission shows none, the call has run exactly one corrective pass and
\* clicked submit exactly twice, and it returns { ok: true }.
C29_OnePassThenSuccess ==
    /\ run.pc = "success" /\ run.loopEntered /\ run.retryCount = 0 =>
           run.fixAttempt = 1 /\ run.clicks = 2
    /\ run.pc = "done" /\ run.loopEntered /\ run.retryCount = 0
            /\ run.error = "none" =>
           run.outcome = "ok"

\* C30: the check of the required fields before the submit never holds the
\* submission back: whatever number of empty fields it reports, and also when
\* the check itself fails, the submit control is clicked next.
C30_PreSubmitCheckIsAdvisory ==
    /\ [](run.error # "check")
    /\ [][run.pc = "submit" /\ run'.error # "submit" =>
              /\ run'.pc = "validate"
              /\ run'.clicks = run.clicks + 1
              /\ run'.emptyRequired \in 0..MaxEmpty]_vars

\* The check has reported the largest number of empty required fields, and
\* the submit control has been clicked all the same.
C30_Witness ==
    /\ run.pc = "validate"
    /\ run.emptyRequired = MaxEmpty
    /\ run.clicks = 1
    /\ run.error = "none"

\* C31: under auto-drain, with every attempt coming to its end, every record
\* that is queued is eventually set to applying, whatever happens to the
\* records that stand before it in the queue.
C31_QueuedEventuallyApplying ==
    \A j \in Jobs : (StatusOf(queue, j) = "queued") ~> (StatusOf(queue, j) = "applying")

\* C32: a forced call processQueue(true) comes only from the "Process Next"
\* button: an attempt that a forced call starts is started in a step of the
\* button, never by a timer callback that an earlier attempt left behind, so
\* one press starts at most one attempt.
C32_OnePressOneAttempt ==
    [][(Started /\ inflight'[Len(inflight')].force) => timers' = timers]_vars

\* C33: a record is set to applied only when the request was delivered and
\* answered 2xx with the engine's result ok: true; every other end of the
\* attempt (ok: false, a non-2xx response, a request that failed, a job that
\* is not on Ashby or has no apply URL) sets the record to failed with a
\* message that is not empty, and in the last two cases no request was made.
EngineSaidOk(a) == a.exchange = POST("ok", "")

C33_AppliedOnlyOnOk ==
    attempt.pc = "done" =>
        LET a == attempt
            rec == RecordOf(queue, a.jobId)
            bare == a.provider # "ashby" \/ ~a.atsUrl
        IN  /\ rec.status \in {"applied", "failed"}
            /\ rec.status = "applied" <=> (~bare /\ EngineSaidOk(a))
            /\ rec.status = "applied" => a.requests = 1 /\ rec.appliedAt /\ ~rec.error
            /\ rec.status = "failed" => rec.error /\ a.message # "" /\ a.message # "none"
            /\ bare => a.requests = 0
            /\ ~bare => a.requests = 1

\* The engine answered 200 with ok: false and no message of its own, and the
\* record is failed with the text made from the status.
C33_Witness ==
    /\ attempt.pc = "done"
    /\ attempt.exchange = POST("fail", "")
    /\ attempt.requests = 1
    /\ attempt.message = "HTTP 200"
    /\ StatusOf(queue, attempt.jobId) = "failed"

\* C34: the step that writes the outcome of an attempt changes the record of
\* the attempted jobId and nothing else of the queue as it stands then: the
\* records of the other jobIds, those enqueued, retried or removed during the
\* attempt included, are present or absent as before, unchanged and in the
\* same order.
Ended(i) ==
    /\ i \in 1..Len(inflight)
    /\ inflight' = SubSeq(inflight, 1, i - 1) \o SubSeq(inflight, i + 1, Len(inflight))

IdsInOrder(q) == [i \in 1..Len(q) |-> q[i].jobId]

C34_OutcomeTouchesOwnRecord ==
    [][\A i \in 1..MaxDecks :
          Ended(i) =>
              /\ IdsInOrder(queue') = IdsInOrder(queue)
              /\ \A k \in Jobs \ {inflight[i].jobId} :
                    RecordOf(queue', k) = RecordOf(queue, k)]_vars

\* The record of another job was enqueued behind the attempted one while the
\* attempt ran, and is there, queued, after the outcome was written.
C34_Witness ==
    /\ lastOp = "outcome"
    /\ inflight = <<>>
    /\ Len(queue) = 2
    /\ queue[1].status \in {"applied", "failed"}
    /\ queue[2] = apiIn
    /\ apiIn.status = "queued"

\* C35: the processing flag of an instance is set only while an attempt of
\* that instance is in flight, and the step that ends an attempt, with
\* success or with failure, leaves the flag cleared, also when it schedules the
\* next call of processQueue: no call is refused for a flag that nothing
\* will clear.
C35_FlagFollowsAttempt ==
    /\ [](\A d \in Decks :
            processingRef[d] => \E k \in 1..Len(inflight) : inflight[k].deck = d)
    /\ [][\A i \in 1..MaxDecks :
            Ended(i) => ~processingRef'[inflight[i].deck]]_vars

\* An attempt has failed: its record is failed, no attempt is in flight, no
\* flag is set and the next call of processQueue is scheduled.
C35_Witness ==
    /\ inflight = <<>>
    /\ \A d \in Decks : ~processingRef[d]
    /\ timers # EmptyBag
    /\ \E i \in 1..Len(queue) : queue[i].status = "failed"
    /\ \A i \in 1..Len(queue) : queue[i].status # "applied"

\* C36: updateApplicationRecord(jobId, partial) changes the record of that
\* jobId and nothing else: the other records and the order of all are as
\* before; a key the partial names takes the partial's value, every other key
\* keeps its value, the keys of the nested profile one by one; when no record
\* has the jobId the queue is as before, undefined is returned and no record
\* is made.
C36_UpdateFrame ==
    [][lastOp' = "update" =>
          LET j == apiIn'.jobId
              u == apiIn'.updates
              idx == FindIndex(queue, j)
          IN  /\ Len(queue') = Len(queue)
              /\ \A i \in 1..Len(queue) : i # idx => queue'[i] = queue[i]
              /\ idx = 0 => (queue' = queue /\ apiOut' = Undefined)
              /\ idx # 0 =>
                    /\ apiOut' = queue'[idx]
                    /\ DOMAIN queue'[idx] = DOMAIN queue[idx]
                    /\ \A f \in DOMAIN queue[idx] \ {"profile"} :
                          queue'[idx][f] = IF f \in DOMAIN u THEN u[f] ELSE queue[idx][f]
                    /\ DOMAIN queue'[idx].profile = DOMAIN queue[idx].profile
                    /\ \A k \in DOMAIN queue[idx].profile :
                          queue'[idx].profile[k] =
                              IF k \in DOMAIN ProfileOf(u) THEN ProfileOf(u)[k]
                              ELSE queue[idx].profile[k]]_vars

\* A partial that names the status and the phone of the profile was applied
\* to the second of two records, whose cover letter is still there.
C36_Witness ==
    /\ lastOp = "update"
    /\ Len(queue) = 2
    /\ apiIn.jobId = queue[2].jobId
    /\ DOMAIN apiIn.updates = {"status", "error", "profile"}
    /\ DOMAIN apiIn.updates.profile = {"phone"}
    /\ queue[2].profile.phone = apiIn.updates.profile.phone
    /\ queue[2].profile.coverLetter = "Dear team"
    /\ queue[2].appliedAt
    /\ apiOut = queue[2]

\* C37: the upload strategies are tried in the order direct file input,
\* labeled file input, upload-button file chooser, first-file-input fallback;
\* the first that succeeds ends the chain; the file is set at most once; the
\* autofill trigger runs once after a successful upload and never without
\* one; and when every strategy fails the upload raises no error and the
\* attempt goes on.
StrategyRank(st) ==
    CASE st = "direct" -> 1 [] st = "labeled" -> 2 [] st = "button" -> 3
      [] st = "fallback" -> 4

C37_UploadChain ==
    LET u == form.upload
    IN  /\ \A i, k \in 1..Len(u.tried) :
              i < k => StrategyRank(u.tried[i]) <= StrategyRank(u.tried[k])
        /\ u.sets <= 1
        /\ u.sets = 1 => u.pc = "returned"
        /\ u.triggers = u.sets
        /\ u.pc # "thrown"
        /\ form.error # "upload"

\* C38: once ensureRequiredPolicyAnswers has run, no policy question holds an
\* answer the profile does not give: with understandsAnchorDays false the
\* in-office box is not checked, with willingToRelocate false the affirmative
\* relocation option is not selected, and with a work authorization answer
\* that says no the affirmative authorization option is not selected.
SaysNo(answer) ==
    answer \in {"No, I am not authorized to work in the United States",
                "No, I will need a visa"}

C38_PolicyAnswersFollowProfile ==
    form.policy.pc = "ensured" =>
        LET pol == form.policy
        IN  /\ ~pol.understandsAnchorDays => ~pol.officeChecked
            /\ ~pol.willingToRelocate => pol.selected["relocate"] # 1
            /\ SaysNo(pol.workAuth) => pol.selected["authorized"] # 1

====
